---- MODULE Spec2Model ----
(***************************************************************************)
(* WebHook-Notifier: the webhook intake (main.py and the per-platform      *)
(* payload parsers) and the RSS poller (rss_monitor.py) as state machines. *)
(*                                                                         *)
(* Python strings and bytes are TLA+ strings.  A digest is the string      *)
(* algo(key,message): two digests are equal exactly when algorithm, key    *)
(* and message are equal (an HMAC/MD5 without collisions).                 *)
(***************************************************************************)
EXTENDS Integers, Sequences, FiniteSets, TLC

VARIABLES
    CONFIG,         \* main.py CONFIG: the per-platform secrets
    pc,             \* position of the request being served
    request,        \* the request on the wire: [route, headers, body]
    response,       \* the response of the handler: [status, detail]
    tasks,          \* the delayed_notification_task instances alive
    seen_articles,  \* RSSMonitor.seen_articles
    disk,           \* rss_last_check.json: the list 'seen_articles'
    mpc,            \* position of RSSMonitor.start_monitoring
    feed_idx,       \* check_all_feeds: index of the feed to check next
    all_new_articles, \* check_all_feeds: all_new_articles
    send_idx,       \* send_notifications: index of the article to send next
    emitted,        \* log: how often each identity was returned as new
    last_check,     \* log: the fetch and the result of the last check_feed
    failed,         \* log: the identities whose delivery failed
    fault,          \* log: the last failure since the feeds were checked
    channels,       \* CONFIG['telegram'], CONFIG['email'], CONFIG['napcat']
    dpc,            \* position of the delivery of one notification
    message,        \* the formatted message handed to the dispatcher
    parts,          \* send_telegram_message: parts
    part_idx,       \* send_telegram_message: index of the part to send next
    sends,          \* log: the transport calls made, in order
    warnings,       \* log: the configuration conditions logged
    incall          \* the tasks inside an outbound call that has not returned

intakeVars == <<CONFIG, pc, request, response, tasks>>

pollVars == <<seen_articles, disk, mpc, feed_idx, all_new_articles, send_idx,
              emitted, last_check, failed, fault>>

dispatchVars == <<channels, dpc, message, parts, part_idx, sends, warnings>>

vars == <<CONFIG, pc, request, response, tasks,
          seen_articles, disk, mpc, feed_idx, all_new_articles, send_idx,
          emitted, last_check, failed, fault,
          channels, dpc, message, parts, part_idx, sends, warnings, incall>>

----------------------------------------------------------------------------
(* Python values *)

\* Python's None where a string is expected (dict.get without default).
NoneStr == "<None>"

\* Python's None where a dict is expected (a parser's "no event").
None == [none |-> TRUE]

\* bool(s) of an optional string: None and "" are falsy.
Truthy(s) == s # NoneStr /\ s # ""

\* d.get(k, default)
Get(d, k, default) == IF k \in DOMAIN d THEN d[k] ELSE default

\* s.startswith(p)
startswith(s, p) == Len(s) >= Len(p) /\ SubSeq(s, 1, Len(p)) = p

\* s[n:]
DropPrefix(s, n) == SubSeq(s, n + 1, Len(s))

\* hmac.new(key, msg, algo).hexdigest(), hashlib.md5(msg).hexdigest()
hexdigest(algo, key, msg) == algo \o "(" \o key \o "," \o msg \o ")"

\* hmac.compare_digest(a, b)
compare_digest(a, b) == a = b

----------------------------------------------------------------------------
(* Request bodies and JSON.  A body is a string of bytes over               *)
(*   "0" "1" "2" "3"  a complete JSON object (the documents below),         *)
(*   " " "\t"         JSON whitespace,                                       *)
(*   "P"              the eight bytes  payload=  of a form-encoded body,     *)
(*   "x"              a byte that is neither JSON nor UTF-8.                 *)

JsonWhitespace == {" ", "\t"}

Commit1 == [message |-> "fix\nbody", author |-> [name |-> "al"],
            url |-> "http://c/1", timestamp |-> "t1"]

Commit3 == [message |-> "fax\nbody", author |-> [name |-> "al"],
            url |-> "http://c/1", timestamp |-> "t1"]

Article1 == [feed_title |-> "feed", title |-> "post", link |-> "http://a/1",
             author |-> "al", description |-> "d", published |-> "p1"]

\* The JSON documents: "0" is {}, "1" and "3" carry new content for every
\* platform and differ in one byte, "2" carries none for any platform.
Documents ==
    [d \in {"0", "1", "2", "3"} |->
        CASE d = "0" -> << >>
          [] d = "1" -> [commits |-> <<Commit1>>, head_commit |-> Commit1,
                         ref |-> "refs/heads/main",
                         repository |-> [full_name |-> "o/r", name |-> "r"],
                         project |-> [name |-> "r"],
                         state |-> "ready", site_name |-> "site",
                         article |-> Article1]
          [] d = "2" -> [commits |-> << >>,
                         ref |-> "refs/heads/main",
                         repository |-> [full_name |-> "o/r", name |-> "r"],
                         project |-> [name |-> "r"],
                         state |-> "building", site_name |-> "site",
                         articles |-> << >>]
          [] d = "3" -> [commits |-> <<Commit3>>, head_commit |-> Commit3,
                         ref |-> "refs/heads/main",
                         repository |-> [full_name |-> "o/r", name |-> "r"],
                         project |-> [name |-> "r"],
                         state |-> "error", site_name |-> "site",
                         articles |-> <<Article1, Article1>>]]

RECURSIVE StripWhitespace(_)
\* The bytes of s that are not JSON whitespace.
StripWhitespace(s) ==
    IF s = "" THEN ""
    ELSE IF SubSeq(s, 1, 1) \in JsonWhitespace
         THEN StripWhitespace(DropPrefix(s, 1))
         ELSE SubSeq(s, 1, 1) \o StripWhitespace(DropPrefix(s, 1))

\* json.loads(body.decode('utf-8')): whitespace around the document is
\* insignificant; anything else raises JSONDecodeError / UnicodeDecodeError.
json_loads(s) ==
    LET t == StripWhitespace(s)
    IN  IF t \in DOMAIN Documents
        THEN [ok |-> TRUE, value |-> Documents[t]]
        ELSE [ok |-> FALSE, value |-> << >>]

\* json.dumps(payload, separators=(',', ':')): the compact serialization,
\* without any whitespace.
json_dumps(payload) == CHOOSE d \in DOMAIN Documents : Documents[d] = payload

\* urllib.parse.unquote: no byte of a modelled body is a percent escape.
unquote(s) == s

\* not payload: {} is falsy.
EmptyPayload(payload) == DOMAIN payload = {}

\* s.split('\n')[0]
RECURSIVE FirstLine(_)
FirstLine(s) ==
    IF s = "" \/ SubSeq(s, 1, 1) = "\n" THEN ""
    ELSE SubSeq(s, 1, 1) \o FirstLine(DropPrefix(s, 1))

\* payload.get('ref', '').replace('refs/heads/', '')
BranchOf(payload) ==
    LET ref == Get(payload, "ref", "")
    IN  IF startswith(ref, "refs/heads/") THEN DropPrefix(ref, 11) ELSE ref

----------------------------------------------------------------------------
(* Headers *)

\* str.lower() on the header names that occur.
lower(name) ==
    CASE name = "Content-Type" -> "content-type"
      [] name = "X-GitHub-Event" -> "x-github-event"
      [] name = "X-Hub-Signature" -> "x-hub-signature"
      [] name = "X-Gitlab-Event" -> "x-gitlab-event"
      [] name = "X-Gitlab-Token" -> "x-gitlab-token"
      [] name = "X-Gitea-Event" -> "x-gitea-event"
      [] name = "X-Gitea-Signature" -> "x-gitea-signature"
      [] name = "X-Gogs-Event" -> "x-gogs-event"
      [] name = "X-Gogs-Signature" -> "x-gogs-signature"
      [] name = "X-Hub-Signature-256" -> "x-hub-signature-256"
      [] name = "X-Signature" -> "x-signature"
      [] name = "X-Webhook-Signature" -> "x-webhook-signature"
      [] name = "X-RSS-Signature" -> "x-rss-signature"
      [] OTHER -> name

\* {k.lower(): v for k, v in headers.items()}
LowerKeys(headers) ==
    [k \in {lower(n) : n \in DOMAIN headers} |->
        headers[CHOOSE n \in DOMAIN headers : lower(n) = k]]

\* dict(request.headers): the framework hands the header names over in
\* lower case, whatever their case on the wire.
RequestHeaders(req) == LowerKeys(req.headers)

----------------------------------------------------------------------------
(* git_payload_parser.py *)

\* GitPayloadParser._verify_signature with the "no secret" test inverted.
Mut_verify_signature_NoSkip(payload_body, secret, signature_header, algo) ==
    IF ~Truthy(signature_header) THEN FALSE
    ELSE IF algo = "sha1"
         THEN compare_digest("sha1=" \o hexdigest("sha1", secret, payload_body),
                             signature_header)
         ELSE compare_digest(hexdigest("sha256", secret, payload_body),
                             signature_header)

\* GitPayloadParser._verify_signature without the "header missing" test, the
\* comparison succeeding on an absent header.
Mut_verify_signature_NoHeader(payload_body, secret, signature_header, algo) ==
    IF secret = "" THEN TRUE
    ELSE IF ~Truthy(signature_header) THEN TRUE
    ELSE IF algo = "sha1"
         THEN compare_digest("sha1=" \o hexdigest("sha1", secret, payload_body),
                             signature_header)
         ELSE compare_digest(hexdigest("sha256", secret, payload_body),
                             signature_header)

\* GitPayloadParser._verify_signature
_verify_signature(payload_body, secret, signature_header, algo) ==
    IF secret = "" THEN TRUE
    ELSE IF ~Truthy(signature_header) THEN FALSE
    ELSE IF algo = "sha1"
         THEN compare_digest("sha1=" \o hexdigest("sha1", secret, payload_body),
                             signature_header)
    ELSE IF algo = "sha256"
         THEN compare_digest(hexdigest("sha256", secret, payload_body),
                             signature_header)
    ELSE FALSE

\* latest_commit.get('message', '').split('\n')[0] if latest_commit.get('message') else ''
CommitMessage(latest_commit) ==
    IF Truthy(Get(latest_commit, "message", ""))
    THEN FirstLine(latest_commit["message"]) ELSE ""

\* GitPayloadParser._parse_generic_github_event, for payloads that carry none
\* of the well-known nested objects.
_parse_generic_github_event(github_event, payload) ==
    LET repository == Get(payload, "repository", << >>)
    IN  [platform |-> "GitHub",
         event_type |-> github_event,
         repository_name |-> Get(repository, "full_name",
                                 Get(repository, "name", "Unknown")),
         action |-> Get(payload, "action", ""),
         author_name |-> "Unknown",
         repository_url |-> Get(repository, "html_url", "")]

\* The event kinds parse_github_payload has a branch of its own for, besides
\* push and create.
OtherDedicatedGithubEvents ==
    {"workflow_run", "pull_request", "release", "delete", "issues",
     "issue_comment", "check_suite", "check_run", "fork", "watch",
     "commit_comment", "pull_request_review", "pull_request_review_comment",
     "deployment", "status", "repository", "member", "milestone", "label"}

\* The signature test of parse_github_payload / parse_gitea_payload: over the
\* raw body when one is given, else over the re-serialized payload.
SignedBytes(payload, raw_body) ==
    IF raw_body # NoneStr THEN raw_body ELSE json_dumps(payload)

\* GitPayloadParser.parse_github_payload: whether verification passes.
verify_github(headers, payload, secret, raw_body) ==
    _verify_signature(SignedBytes(payload, raw_body), secret,
                      Get(LowerKeys(headers), "x-hub-signature", ""), "sha1")

\* GitPayloadParser.parse_github_payload
parse_github_payload(headers, payload, secret, raw_body) ==
    LET headers_lower == LowerKeys(headers)
        github_event == Get(headers_lower, "x-github-event", NoneStr)
        repo_name == Get(Get(payload, "repository", << >>), "full_name", NoneStr)
        latest_commit == Get(payload, "head_commit", << >>)
    IN  IF ~verify_github(headers, payload, secret, raw_body) THEN None
        ELSE IF github_event = "push"
        THEN IF Get(payload, "commits", << >>) = << >> THEN None
             ELSE [platform |-> "GitHub",
                   event_type |-> "push",
                   repository_name |-> repo_name,
                   branch |-> BranchOf(payload),
                   commit_message |-> CommitMessage(latest_commit),
                   author_name |-> Get(Get(latest_commit, "author", << >>),
                                       "name", NoneStr),
                   commit_url |-> Get(latest_commit, "url", NoneStr),
                   timestamp |-> Get(latest_commit, "timestamp", NoneStr)]
        ELSE IF github_event = "create"
        THEN [platform |-> "GitHub",
              event_type |-> "create",
              repository_name |-> repo_name,
              ref_type |-> Get(payload, "ref_type", ""),
              ref |-> Get(payload, "ref", ""),
              branch |-> IF Get(payload, "ref_type", "") = "branch"
                         THEN Get(payload, "ref", "") ELSE "",
              author_name |-> ""]
        ELSE IF github_event \in OtherDedicatedGithubEvents
        THEN [platform |-> "GitHub",
              event_type |-> github_event,
              repository_name |-> repo_name]
        ELSE _parse_generic_github_event(github_event, payload)

\* GitPayloadParser.parse_gitlab_payload: whether the token test passes.
verify_gitlab(headers, payload, secret) ==
    LET token == Get(LowerKeys(headers), "x-gitlab-token", NoneStr)
    IN  ~(secret # "" /\ token # secret) /\ ~(secret # "" /\ ~Truthy(token))

\* The push event of parse_gitlab_payload, parse_gitea_payload and
\* parse_gogs_payload: the fields of the last commit, without event_type.
LastCommitEvent(platform, repo_name, payload) ==
    LET commits == Get(payload, "commits", << >>)
        latest_commit == IF commits # << >> THEN commits[Len(commits)] ELSE << >>
    IN  [platform |-> platform,
         repository_name |-> repo_name,
         branch |-> BranchOf(payload),
         commit_message |-> CommitMessage(latest_commit),
         author_name |-> Get(Get(latest_commit, "author", << >>), "name", NoneStr),
         commit_url |-> Get(latest_commit, "url", NoneStr),
         timestamp |-> Get(latest_commit, "timestamp", NoneStr)]

\* GitPayloadParser.parse_gitlab_payload
parse_gitlab_payload(headers, payload, secret) ==
    LET headers_lower == LowerKeys(headers)
        gitlab_event == Get(headers_lower, "x-gitlab-event", NoneStr)
    IN  IF ~verify_gitlab(headers, payload, secret) THEN None
        ELSE IF gitlab_event # "Push Hook" THEN None
        ELSE IF Get(payload, "commits", << >>) = << >> THEN None
        ELSE LastCommitEvent("GitLab",
                 Get(Get(payload, "project", << >>), "name", NoneStr), payload)

\* GitPayloadParser.parse_gitea_payload: whether verification passes.
verify_gitea(headers, payload, secret, raw_body) ==
    _verify_signature(SignedBytes(payload, raw_body), secret,
                      Get(LowerKeys(headers), "x-gitea-signature", ""), "sha256")

\* GitPayloadParser.parse_gitea_payload
parse_gitea_payload(headers, payload, secret, raw_body) ==
    LET headers_lower == LowerKeys(headers)
        gitea_event == Get(headers_lower, "x-gitea-event", NoneStr)
    IN  IF ~verify_gitea(headers, payload, secret, raw_body) THEN None
        ELSE IF gitea_event # "push" THEN None
        ELSE IF Get(payload, "commits", << >>) = << >> THEN None
        ELSE LastCommitEvent("Gitea",
                 Get(Get(payload, "repository", << >>), "name", NoneStr), payload)

\* GitPayloadParser.parse_gogs_payload: whether verification passes.  The
\* digest is taken over the re-serialized payload, not over the body received.
verify_gogs(headers, payload, secret) ==
    LET signature == Get(LowerKeys(headers), "x-gogs-signature", NoneStr)
    IN  IF secret # ""
        THEN Truthy(signature)
             /\ compare_digest(signature,
                    hexdigest("sha256", secret, json_dumps(payload)))
        ELSE TRUE

\* GitPayloadParser.parse_gogs_payload
parse_gogs_payload(headers, payload, secret) ==
    LET headers_lower == LowerKeys(headers)
        gogs_event == Get(headers_lower, "x-gogs-event", NoneStr)
    IN  IF ~verify_gogs(headers, payload, secret) THEN None
        ELSE IF gogs_event # "push" THEN None
        ELSE IF Get(payload, "commits", << >>) = << >> THEN None
        ELSE LastCommitEvent("Gogs",
                 Get(Get(payload, "repository", << >>), "full_name", NoneStr),
                 payload)

----------------------------------------------------------------------------
(* generic_payload_parser.py, netlify_payload_parser.py, rss_payload_parser.py *)

\* The signature GenericPayloadParser.parse_payload reads:
\* headers.get('x-hub-signature-256') or headers.get('x-signature')
generic_signature(headers) ==
    IF Truthy(Get(headers, "x-hub-signature-256", NoneStr))
    THEN headers["x-hub-signature-256"]
    ELSE Get(headers, "x-signature", NoneStr)

\* GenericPayloadParser.parse_payload: whether verification passes.
verify_generic(headers, payload, secret, body) ==
    LET signature == generic_signature(headers)
    IN  IF secret # ""
        THEN /\ Truthy(signature)
             /\ startswith(signature, "sha256=")
             /\ compare_digest(signature,
                    "sha256=" \o hexdigest("sha256", secret, body))
        ELSE TRUE

\* GenericPayloadParser.parse_payload
generic_parse_payload(headers, payload, secret, body) ==
    IF ~verify_generic(headers, payload, secret, body) THEN None
    ELSE [platform |-> "Generic", data |-> payload]

\* NetlifyPayloadParser.parse_payload: whether verification passes.  The
\* header is looked up under its mixed-case name in the dict it is given.
verify_netlify(headers, payload, secret, body) ==
    LET signature == Get(headers, "X-Webhook-Signature", NoneStr)
    IN  IF secret # ""
        THEN /\ Truthy(signature)
             /\ compare_digest(signature, hexdigest("sha256", secret, body))
        ELSE TRUE

\* NetlifyPayloadParser.parse_payload
netlify_parse_payload(headers, payload, secret, body) ==
    LET state == Get(payload, "state", "unknown")
    IN  IF ~verify_netlify(headers, payload, secret, body) THEN None
        ELSE IF state \notin {"ready", "error"} THEN None
        ELSE [platform |-> "Netlify",
              site_id |-> Get(payload, "site_id", ""),
              site_name |-> Get(payload, "site_name", ""),
              state |-> state,
              deploy_id |-> Get(payload, "deploy_id", ""),
              deploy_url |-> Get(payload, "deploy_url", ""),
              build_id |-> Get(payload, "build_id", "")]

\* signature_header.replace('sha256=', '') on the header values that occur.
StripSha256(signature_header) ==
    IF startswith(signature_header, "sha256=")
    THEN DropPrefix(signature_header, 7) ELSE signature_header

\* RSSPayloadParser._verify_webhook_signature: every branch returns True.
_verify_webhook_signature(payload_body, secret, signature_header) ==
    IF secret = "" THEN TRUE
    ELSE IF ~Truthy(signature_header) THEN TRUE
    ELSE IF compare_digest(hexdigest("sha256", secret, payload_body),
                           StripSha256(signature_header))
         THEN TRUE
         ELSE TRUE

\* The event parse_rss_webhook builds from one article.
RssEvent(article, total, now) ==
    [platform |-> "RSS",
     feed_name |-> Get(article, "feed_title", "unknown feed"),
     article_title |-> Get(article, "title", "untitled"),
     article_url |-> Get(article, "link", ""),
     author_name |-> Get(article, "author", "unknown author"),
     description |-> Get(article, "description", ""),
     published_time |-> Get(article, "published", ""),
     total_articles |-> total,
     timestamp |-> now]

\* The extraction of parse_rss_webhook, after its signature check.
RssExtract(payload, now) ==
    IF "articles" \in DOMAIN payload
    THEN IF payload["articles"] # << >>
         THEN RssEvent(payload["articles"][1], Len(payload["articles"]), now)
         ELSE None
    ELSE IF "article" \in DOMAIN payload
         THEN RssEvent(payload["article"], 1, now)
         ELSE None

\* RSSPayloadParser.parse_rss_webhook rejecting a request whose signature
\* does not match, as the other platforms do.
Mut_parse_rss_webhook_Enforce(headers, payload, secret, raw_body, now) ==
    LET signature_header == Get(LowerKeys(headers), "x-rss-signature", "")
    IN  IF /\ raw_body # "" /\ secret # ""
           /\ ~compare_digest(hexdigest("sha256", secret, raw_body),
                              StripSha256(signature_header))
        THEN None
        ELSE RssExtract(payload, now)

\* RSSPayloadParser.parse_rss_webhook; now is datetime.now().  The result of
\* the signature check is not looked at.
parse_rss_webhook(headers, payload, secret, raw_body, now) ==
    LET signature_header == Get(LowerKeys(headers), "x-rss-signature", "")
        checked == IF raw_body # "" /\ secret # ""
                   THEN _verify_webhook_signature(raw_body, secret, signature_header)
                   ELSE TRUE
    IN  IF checked \in BOOLEAN THEN RssExtract(payload, now) ELSE None

----------------------------------------------------------------------------
(* main.py, generic_webhook_handler.py: the handlers *)

\* The secret a deployment configures, and one it does not.
K1 == "k1"

K2 == "k2"

Secrets == {"", K1}

ConfigKeys == {"github", "gitlab", "gitea", "gogs", "generic", "netlify", "rss"}

\* CONFIG[platform]['secret'], the same choice for every platform.
Configs == {[k \in ConfigKeys |-> s] : s \in Secrets}

\* raise HTTPException(status_code, detail) / return {"message": ...}
Response(status, detail) == [status |-> status, detail |-> detail]

NoResponse == Response(0, "")

NoRequest == [route |-> "", headers |-> << >>, body |-> ""]

\* What a handler does with a request: its response and the payload it
\* creates a delayed_notification_task for (None: no task).
Rejected(status, detail) ==
    [response |-> Response(status, detail), parsed_payload |-> None]

Scheduled(parsed_payload) ==
    [response |-> Response(200, "scheduled"), parsed_payload |-> parsed_payload]

\* handle_git_webhook: the payload by Content-Type.  A form body is
\* payload=<url-encoded JSON>; parse_qs finds no payload field in any other.
ParseGitBody(content_type, body) ==
    IF content_type = "application/json" THEN json_loads(body)
    ELSE IF content_type = "application/x-www-form-urlencoded"
    THEN IF startswith(body, "P")
         THEN json_loads(unquote(DropPrefix(body, 1)))
         ELSE [ok |-> FALSE, value |-> << >>]
    ELSE json_loads(body)

\* handle_git_webhook: the parser chosen by the platform header.
GitPlatform(headers_lower) ==
    IF "x-github-event" \in DOMAIN headers_lower THEN "github"
    ELSE IF "x-gitlab-event" \in DOMAIN headers_lower THEN "gitlab"
    ELSE IF "x-gitea-event" \in DOMAIN headers_lower THEN "gitea"
    ELSE IF "x-gogs-event" \in DOMAIN headers_lower THEN "gogs"
    ELSE "unknown"

\* handle_git_webhook: the call of the platform's parser.
GitParse(platform, headers, payload, config, body) ==
    CASE platform = "github" ->
            parse_github_payload(headers, payload, config["github"], body)
      [] platform = "gitlab" ->
            parse_gitlab_payload(headers, payload, config["gitlab"])
      [] platform = "gitea" ->
            parse_gitea_payload(headers, payload, config["gitea"], body)
      [] platform = "gogs" ->
            parse_gogs_payload(headers, payload, config["gogs"])

\* handle_git_webhook creating the delivery task whatever the parser returned.
Mut_handle_git_webhook_NoCheck(req, config) ==
    LET body == req.body
        headers == RequestHeaders(req)
        parsed == ParseGitBody(Get(headers, "content-type", ""), body)
        platform == GitPlatform(LowerKeys(headers))
    IN  IF body = "" THEN Rejected(400, "empty body")
        ELSE IF ~parsed.ok THEN Rejected(400, "unparseable body")
        ELSE IF EmptyPayload(parsed.value) THEN Rejected(400, "empty payload")
        ELSE IF platform = "unknown" THEN Rejected(400, "unknown platform")
        ELSE Scheduled(GitParse(platform, headers, parsed.value, config, body))

\* handle_git_webhook
handle_git_webhook(req, config) ==
    LET body == req.body
        headers == RequestHeaders(req)
        parsed == ParseGitBody(Get(headers, "content-type", ""), body)
        platform == GitPlatform(LowerKeys(headers))
    IN  IF body = "" THEN Rejected(400, "empty body")
        ELSE IF ~parsed.ok THEN Rejected(400, "unparseable body")
        ELSE IF EmptyPayload(parsed.value) THEN Rejected(400, "empty payload")
        ELSE IF platform = "unknown" THEN Rejected(400, "unknown platform")
        ELSE LET parsed_payload ==
                     GitParse(platform, headers, parsed.value, config, body)
             IN  IF parsed_payload = None
                 THEN Rejected(400, "parsing or signature verification failed")
                 ELSE Scheduled(parsed_payload)

\* handle_generic_webhook and webhook_generic
webhook_generic(req, config) ==
    LET body == req.body
        headers == RequestHeaders(req)
        parsed == json_loads(body)
    IN  IF body = "" THEN Rejected(400, "empty body")
        ELSE IF ~parsed.ok THEN Rejected(400, "unparseable body")
        ELSE LET parsed_payload ==
                     generic_parse_payload(headers, parsed.value,
                                           config["generic"], body)
             IN  IF parsed_payload = None
                 THEN Rejected(400, "parsing or signature verification failed")
                 ELSE Scheduled(parsed_payload)

\* handle_rss_webhook
handle_rss_webhook(req, config, now) ==
    LET body == req.body
        headers == RequestHeaders(req)
        parsed == json_loads(body)
    IN  IF body = "" THEN Rejected(400, "empty body")
        ELSE IF ~parsed.ok THEN Rejected(400, "unparseable body")
        ELSE IF EmptyPayload(parsed.value) THEN Rejected(400, "empty payload")
        ELSE LET parsed_payload ==
                     parse_rss_webhook(headers, parsed.value, config["rss"],
                                       body, now)
             IN  IF parsed_payload = None
                 THEN Rejected(400, "parsing failed")
                 ELSE Scheduled(parsed_payload)

\* handle_netlify_webhook
handle_netlify_webhook(req, config) ==
    LET body == req.body
        headers == RequestHeaders(req)
        parsed == json_loads(body)
    IN  IF body = "" THEN Rejected(400, "empty body")
        ELSE IF ~parsed.ok THEN Rejected(400, "unparseable body")
        ELSE IF EmptyPayload(parsed.value) THEN Rejected(400, "empty payload")
        ELSE LET parsed_payload ==
                     netlify_parse_payload(headers, parsed.value,
                                           config["netlify"], body)
             IN  IF parsed_payload = None
                 THEN Rejected(400, "parsing or signature verification failed")
                 ELSE Scheduled(parsed_payload)

----------------------------------------------------------------------------
(* The requests the service is sent *)

\* At most MaxTasks delivery tasks are pending when a request comes in.
MaxTasks == 1

\* The request bodies: empty, undecodable, the four documents, document 1
\* followed by a space or a tab, and the form encoding of document 1.
Bodies == {"", "x", "0", "1", "2", "3", "1 ", "1\t", "P1"}

\* Values of datetime.now().isoformat().
Times == {"T1", "T2"}

\* The signature or token values presented with a body: absent (NoneStr),
\* empty, not a digest, the secret or another one as a token, and digests of
\* the body in each scheme; for a body that is JSON also the digest of its
\* compact serialization.
SigValues(body) ==
    {NoneStr, "", "garbage", K1, K2,
     "sha1=" \o hexdigest("sha1", K1, body),
     hexdigest("sha256", K1, body),
     hexdigest("sha256", K2, body),
     "sha256=" \o hexdigest("sha256", K1, body)}
    \cup (IF json_loads(body).ok
          THEN {hexdigest("sha256", K1, json_dumps(json_loads(body).value))}
          ELSE {})

\* A header set: the event header (if any), the signature header (if any)
\* and the content type.
HeadersOf(event_name, event, sig_name, sig, content_type) ==
    LET e == IF event_name = "" THEN << >> ELSE event_name :> event
        s == IF sig = NoneStr THEN << >> ELSE sig_name :> sig
    IN  e @@ s @@ ("Content-Type" :> content_type)

\* The content type a client sends with a body: form-encoded bodies are
\* announced as such on the platform that sends them, the requests of no
\* known Git platform come as plain text, all others as JSON.
ContentTypeOf(route, event_name, body) ==
    IF event_name = "X-GitHub-Event" /\ startswith(body, "P")
    THEN "application/x-www-form-urlencoded"
    ELSE IF route = "/webhook/git" /\ event_name = "" THEN "text/plain"
    ELSE "application/json"

\* The requests of one route and platform: every event kind, signature
\* header name and body, with every signature value.
RequestsOf(route, event_name, events, sig_names) ==
    UNION {{[route |-> route,
             headers |-> HeadersOf(event_name, e, n, s,
                                   ContentTypeOf(route, event_name, b)),
             body |-> b] :
                e \in events, n \in sig_names, s \in SigValues(b)} :
           b \in Bodies}

Requests ==
    RequestsOf("/webhook/git", "X-GitHub-Event", {"push", "create", "ping"},
               {"X-Hub-Signature"})
    \cup RequestsOf("/webhook/git", "X-Gitlab-Event", {"Push Hook", "Note Hook"},
                    {"X-Gitlab-Token"})
    \cup RequestsOf("/webhook/git", "X-Gitea-Event", {"push", "release"},
                    {"X-Gitea-Signature"})
    \cup RequestsOf("/webhook/git", "X-Gogs-Event", {"push", "release"},
                    {"X-Gogs-Signature"})
    \cup RequestsOf("/webhook/git", "", {""}, {"X-Hub-Signature"})
    \cup RequestsOf("/webhook/generic", "", {""},
                    {"X-Hub-Signature-256", "X-Signature"})
    \cup RequestsOf("/webhook/rss", "", {""}, {"X-RSS-Signature"})
    \cup RequestsOf("/webhook/netlify", "", {""}, {"X-Webhook-Signature"})

----------------------------------------------------------------------------
(* The intake: one request at a time is received, handled and answered;    *)
(* the delivery tasks it leaves behind run on their own.                    *)

\* asyncio.create_task(delayed_notification_task(parsed_payload))
NewTask(parsed_payload) == [payload |-> parsed_payload]

InitIntake ==
    /\ CONFIG \in Configs
    /\ pc = "idle"
    /\ request = NoRequest
    /\ response = NoResponse
    /\ tasks = << >>

\* A request arrives and its body is read (await request.body()).
Receive(req) ==
    /\ pc = "idle"
    /\ Len(tasks) < MaxTasks
    /\ pc' = "received"
    /\ request' = req
    /\ response' = NoResponse
    /\ UNCHANGED <<CONFIG, tasks>>
    /\ UNCHANGED pollVars
    /\ UNCHANGED dispatchVars
    /\ UNCHANGED incall

\* The handlers, were handle_rss_webhook to record the article it accepts
\* in the store of the poller.
Mut_StoreAfterPush_Record(seen, result) ==
    IF result.parsed_payload # None /\ result.parsed_payload.platform = "RSS"
    THEN seen \cup {hexdigest("md5", "", result.parsed_payload.article_url)}
    ELSE seen

\* rss_monitor.seen_articles after a handler has run: no handler refers to
\* rss_monitor.
StoreAfterPush(seen, result) == seen

\* A handler's result takes effect: the response is fixed and, for an
\* accepted request, the delivery task is created.
Handled(result) ==
    /\ pc' = "responded"
    /\ response' = result.response
    /\ tasks' = IF result.response.status = 200
                THEN Append(tasks, NewTask(result.parsed_payload))
                ELSE tasks
    /\ UNCHANGED <<CONFIG, request>>
    /\ seen_articles' = StoreAfterPush(seen_articles, result)
    /\ UNCHANGED <<disk, mpc, feed_idx, all_new_articles, send_idx, emitted,
                   last_check, failed, fault>>
    /\ UNCHANGED dispatchVars
    /\ UNCHANGED incall

HandleGitWebhook ==
    /\ pc = "received"
    /\ request.route = "/webhook/git"
    /\ Handled(handle_git_webhook(request, CONFIG))

HandleGenericWebhook ==
    /\ pc = "received"
    /\ request.route = "/webhook/generic"
    /\ Handled(webhook_generic(request, CONFIG))

HandleRssWebhook ==
    /\ pc = "received"
    /\ request.route = "/webhook/rss"
    /\ \E now \in Times : Handled(handle_rss_webhook(request, CONFIG, now))

HandleNetlifyWebhook ==
    /\ pc = "received"
    /\ request.route = "/webhook/netlify"
    /\ Handled(handle_netlify_webhook(request, CONFIG))

\* The handlers, were they to await delayed_notification_task instead of
\* handing it to asyncio.create_task.
Mut_HandlerAwaits_Tasks(tasks_) == tasks_

\* The tasks a handler awaits before its response leaves: none, the task is
\* handed to asyncio.create_task and the handler returns.
HandlerAwaits(tasks_) == << >>

\* The response leaves; the handler is done with the request.
Reply ==
    /\ pc = "responded"
    /\ HandlerAwaits(tasks) = << >>
    /\ pc' = "idle"
    /\ request' = NoRequest
    /\ response' = NoResponse
    /\ UNCHANGED <<CONFIG, tasks>>
    /\ UNCHANGED pollVars
    /\ UNCHANGED dispatchVars
    /\ UNCHANGED incall

\* delayed_notification_task runs: its sleep ends, the message is formatted
\* and sent on the enabled channels, and the task ends.
RunTask(i) ==
    /\ tasks' = [j \in 1..(Len(tasks) - 1) |->
                    IF j < i THEN tasks[j] ELSE tasks[j + 1]]
    /\ UNCHANGED <<CONFIG, pc, request, response>>
    /\ UNCHANGED pollVars
    /\ UNCHANGED dispatchVars
    /\ UNCHANGED incall

NextIntake ==
    \/ \E req \in Requests : Receive(req)
    \/ HandleGitWebhook
    \/ HandleGenericWebhook
    \/ HandleRssWebhook
    \/ HandleNetlifyWebhook
    \/ Reply
    \/ \E i \in DOMAIN tasks : RunTask(i)

----------------------------------------------------------------------------
(* notification_dispatcher.py: the splitting of a long message *)

\* max_length of send_telegram_message (4000 in the source), at the scale of
\* the texts below.
max_length == 3

\* The texts are at most MaxText characters long.
MaxText == 8

\* The characters of a formatted message: letters and the line break.
Chars == {"a", "b", "\n"}

RECURSIVE TextsOfLen(_)
TextsOfLen(n) ==
    IF n = 0 THEN {""}
    ELSE {c \o t : c \in Chars, t \in TextsOfLen(n - 1)}

\* The formatted messages.
Texts == UNION {TextsOfLen(n) : n \in 0..MaxText}

RECURSIVE split(_, _)
\* s.split(sep), sep being one character
split(s, sep) ==
    IF s = "" THEN <<"">>
    ELSE LET rest == split(DropPrefix(s, 1), sep)
         IN  IF SubSeq(s, 1, 1) = sep
             THEN <<"">> \o rest
             ELSE <<SubSeq(s, 1, 1) \o Head(rest)>> \o Tail(rest)

\* send_telegram_message without the forced split of a long line.
Mut_ForceSplit_Never(parts_, line) == [parts |-> parts_, line |-> line]

RECURSIVE ForceSplit(_, _)
\* send_telegram_message: while len(line) > max_length: the parts with the
\* pieces cut off the line, and what is left of the line.
ForceSplit(parts_, line) ==
    IF Len(line) > max_length
    THEN ForceSplit(Append(parts_, SubSeq(line, 1, max_length)),
                    DropPrefix(line, max_length))
    ELSE [parts |-> parts_, line |-> line]

RECURSIVE SplitLoop(_, _, _)
\* send_telegram_message: for line in lines, and the last part.
SplitLoop(lines, parts_, current_part) ==
    IF lines = << >>
    THEN IF current_part # "" THEN Append(parts_, current_part) ELSE parts_
    ELSE LET line == Head(lines)
         IN  IF Len(current_part) + Len(line) + 1 > max_length
             THEN LET flushed == IF current_part # ""
                                 THEN Append(parts_, current_part) ELSE parts_
                      cut == ForceSplit(flushed, line)
                  IN  SplitLoop(Tail(lines), cut.parts, cut.line)
             ELSE IF current_part # ""
                  THEN SplitLoop(Tail(lines), parts_,
                                 current_part \o "\n" \o line)
                  ELSE SplitLoop(Tail(lines), parts_, line)

\* send_telegram_message: the chunks handed to _send_chunk for a message.
TelegramChunks(message_) ==
    IF Len(message_) <= max_length
    THEN <<message_>>
    ELSE SplitLoop(split(message_, "\n"), << >>, "")

----------------------------------------------------------------------------
(* notification_dispatcher.py and delayed_notification_task: one delivery *)

\* CONFIG['telegram']: disabled, complete, with an empty bot_token, and
\* without the key bot_token.
TelegramConfigs ==
    {[enabled |-> FALSE],
     [enabled |-> TRUE, bot_token |-> "token", chat_id |-> "chat"],
     [enabled |-> TRUE, bot_token |-> "", chat_id |-> "chat"],
     [enabled |-> TRUE, chat_id |-> "chat"]}

\* CONFIG['email']: disabled, complete, and without its SMTP settings.
EmailConfigs ==
    {[enabled |-> FALSE],
     [enabled |-> TRUE, smtp_server |-> "smtp", recipient_emails |-> "rcpt"],
     [enabled |-> TRUE, recipient_emails |-> "rcpt"]}

\* CONFIG['napcat'] with both targets, in the default send_mode.
NapcatDefault ==
    [enabled |-> TRUE, base_url |-> "http://napcat", user_id |-> "user",
     group_id |-> "group"]

\* CONFIG['napcat']: disabled, without base_url, in the default send_mode,
\* and in every send_mode with and without each target.
NapcatConfigs ==
    {[enabled |-> FALSE],
     [enabled |-> TRUE, send_mode |-> "all", user_id |-> "user",
      group_id |-> "group"],
     NapcatDefault}
    \cup {[enabled |-> TRUE, base_url |-> "http://napcat", send_mode |-> m,
           user_id |-> u, group_id |-> g] :
             m \in {"private", "group", "all", "both"},
             u \in {"", "user"}, g \in {"", "group"}}

\* The channel sections of config.yaml: every Telegram and Email section
\* beside a complete Napcat section, and every Napcat section alone.
ChannelConfigs ==
    {[telegram |-> t, email |-> e, napcat |-> NapcatDefault] :
        t \in TelegramConfigs, e \in EmailConfigs}
    \cup {[telegram |-> [enabled |-> FALSE], email |-> [enabled |-> FALSE],
           napcat |-> n] : n \in NapcatConfigs}

\* The outcome of a transport call: it returns, or it fails with a request
\* error, a timeout or an HTTP error status.
Outcomes == {"ok", "failed"}

\* send_telegram_message before its first chunk: the channel is skipped, the
\* lookup of a missing key raises, the configuration is logged as incomplete,
\* or the message is sent.
TelegramEntry(config) ==
    IF ~Get(config.telegram, "enabled", FALSE) THEN "skip"
    ELSE IF {"bot_token", "chat_id"} \ DOMAIN config.telegram # {}
         THEN "KeyError"
    ELSE IF ~Truthy(config.telegram["bot_token"])
              \/ ~Truthy(config.telegram["chat_id"])
         THEN "incomplete"
    ELSE "send"

\* send_email before the SMTP session: skipped, logged as incomplete, or sent.
EmailEntry(config) ==
    IF ~Get(config.email, "enabled", FALSE) THEN "skip"
    ELSE IF ~Truthy(Get(config.email, "smtp_server", NoneStr))
              \/ ~Truthy(Get(config.email, "recipient_emails", NoneStr))
         THEN "incomplete"
    ELSE "send"

\* send_napcat_message before its sends: skipped, logged as incomplete, or on.
NapcatEntry(config) ==
    IF ~Get(config.napcat, "enabled", FALSE) THEN "skip"
    ELSE IF ~Truthy(Get(config.napcat, "base_url", NoneStr)) THEN "incomplete"
    ELSE "send"

\* napcat_config.get('send_mode', 'all')
send_mode(config) == Get(config.napcat, "send_mode", "all")

\* send_napcat_message on one target (mode: 'private' or 'group', id_key:
\* 'user_id' or 'group_id'): a send, a logged warning, or nothing.
NapcatTarget(config, mode, id_key) ==
    IF send_mode(config) \in {mode, "all"}
    THEN IF Truthy(Get(config.napcat, id_key, NoneStr)) THEN "send"
         ELSE IF send_mode(config) = mode THEN "warn"
         ELSE "nothing"
    ELSE "nothing"

\* The messages of the deliveries: one within max_length and one of three
\* lines that is split.
DispatchMessages == {"ab", "aaa\nbbb\nab"}

\* A logged transport call.
Send(channel, target, text, outcome) ==
    [channel |-> channel, target |-> target, text |-> text, outcome |-> outcome]

\* No delivery is running; the channel sections are those of config.yaml.
InitDispatch(configs) ==
    /\ channels \in configs
    /\ dpc = "idle"
    /\ message = ""
    /\ parts = << >>
    /\ part_idx = 0
    /\ sends = << >>
    /\ warnings = {}
    /\ incall = {}

\* delayed_notification_task is created for an event and starts its sleep.
StartDelivery(text) ==
    /\ dpc \in {"idle", "done", "raised"}
    /\ dpc' = "sleep"
    /\ message' = text
    /\ parts' = << >>
    /\ part_idx' = 0
    /\ sends' = << >>
    /\ warnings' = {}
    /\ UNCHANGED channels
    /\ UNCHANGED <<intakeVars, pollVars>>
    /\ UNCHANGED incall

\* asyncio.sleep(delay_seconds) returns; the message is formatted and
\* send_telegram_message is entered if the channel is enabled.
EnterTelegram ==
    /\ dpc = "sleep"
    /\ LET entry == TelegramEntry(channels)
       IN  /\ dpc' = CASE entry = "send" -> "chunks"
                       [] entry = "KeyError" -> "raised"
                       [] OTHER -> "email"
           /\ parts' = IF entry = "send" THEN TelegramChunks(message) ELSE << >>
           /\ part_idx' = IF entry = "send" THEN 1 ELSE 0
           /\ warnings' = IF entry = "incomplete"
                          THEN warnings \cup {"telegram incomplete"}
                          ELSE warnings
    /\ UNCHANGED <<channels, message, sends>>
    /\ UNCHANGED <<intakeVars, pollVars>>
    /\ UNCHANGED incall

\* send_telegram_message giving up its remaining parts after a failed one.
Mut_NextPart_Abort(i, n, outcome) == IF outcome = "failed" THEN n + 1 ELSE i + 1

\* send_telegram_message: for i, part in enumerate(parts); _send_chunk has
\* logged a failure and returned, the loop goes on with the next of n parts.
NextPart(i, n, outcome) == i + 1

\* _send_chunk on the next part: the post returns or fails, the failure is
\* logged.
SendChunk(outcome) ==
    /\ dpc = "chunks"
    /\ part_idx <= Len(parts)
    /\ sends' = Append(sends, Send("telegram", channels.telegram["chat_id"],
                                   parts[part_idx], outcome))
    /\ part_idx' = NextPart(part_idx, Len(parts), outcome)
    /\ UNCHANGED <<channels, dpc, message, parts, warnings>>
    /\ UNCHANGED <<intakeVars, pollVars>>
    /\ incall' = incall \ {"delivery"}

\* send_telegram_message returns after its last part.
LeaveTelegram ==
    /\ dpc = "chunks"
    /\ part_idx > Len(parts)
    /\ dpc' = "email"
    /\ UNCHANGED <<channels, message, parts, part_idx, sends, warnings>>
    /\ UNCHANGED <<intakeVars, pollVars>>
    /\ UNCHANGED incall

\* send_email, if the channel is enabled: the SMTP session succeeds or fails,
\* the failure is logged.
SendEmail(outcome) ==
    /\ dpc = "email"
    /\ LET entry == EmailEntry(channels)
       IN  /\ sends' = IF entry = "send"
                       THEN Append(sends,
                                Send("email", channels.email["recipient_emails"],
                                     message, outcome))
                       ELSE sends
           /\ entry # "send" => outcome = "ok"
           /\ warnings' = IF entry = "incomplete"
                          THEN warnings \cup {"email incomplete"}
                          ELSE warnings
    /\ dpc' = "napcat"
    /\ UNCHANGED <<channels, message, parts, part_idx>>
    /\ UNCHANGED <<intakeVars, pollVars>>
    /\ incall' = incall \ {"delivery"}

\* send_napcat_message is entered if the channel is enabled; without
\* base_url it logs and returns.
EnterNapcat ==
    /\ dpc = "napcat"
    /\ LET entry == NapcatEntry(channels)
       IN  /\ dpc' = IF entry = "send" THEN "napcat_private" ELSE "done"
           /\ warnings' = IF entry = "incomplete"
                          THEN warnings \cup {"napcat incomplete"}
                          ELSE warnings
    /\ UNCHANGED <<channels, message, parts, part_idx, sends>>
    /\ UNCHANGED <<intakeVars, pollVars>>
    /\ UNCHANGED incall

\* send_napcat_message on one of its targets, at position at: the send of
\* the endpoint returns or fails, or the missing target is logged, or nothing
\* happens; then the position is next.
NapcatStep(at, next, mode, id_key, endpoint, outcome) ==
    /\ dpc = at
    /\ LET todo == NapcatTarget(channels, mode, id_key)
       IN  /\ sends' = IF todo = "send"
                       THEN Append(sends, Send("napcat", endpoint, message,
                                               outcome))
                       ELSE sends
           /\ todo # "send" => outcome = "ok"
           /\ warnings' = IF todo = "warn"
                          THEN warnings \cup {"napcat " \o id_key \o " missing"}
                          ELSE warnings
    /\ dpc' = next
    /\ UNCHANGED <<channels, message, parts, part_idx>>
    /\ UNCHANGED <<intakeVars, pollVars>>
    /\ incall' = incall \ {"delivery"}

\* send_napcat_message: the private chat.
NapcatPrivate(outcome) ==
    NapcatStep("napcat_private", "napcat_group", "private", "user_id",
               "/send_private_msg", outcome)

\* send_napcat_message: the group chat; then the task is complete.
NapcatGroup(outcome) ==
    NapcatStep("napcat_group", "done", "group", "group_id",
               "/send_group_msg", outcome)

NextDispatch ==
    \/ \E text \in DispatchMessages : StartDelivery(text)
    \/ EnterTelegram
    \/ \E outcome \in Outcomes : SendChunk(outcome)
    \/ LeaveTelegram
    \/ \E outcome \in Outcomes : SendEmail(outcome)
    \/ EnterNapcat
    \/ \E outcome \in Outcomes : NapcatPrivate(outcome)
    \/ \E outcome \in Outcomes : NapcatGroup(outcome)

\* The splitter applied to a text.
SplitText ==
    /\ dpc = "text"
    /\ dpc' = "split"
    /\ parts' = TelegramChunks(message)
    /\ UNCHANGED <<channels, message, part_idx, sends, warnings>>
    /\ UNCHANGED <<intakeVars, pollVars>>
    /\ UNCHANGED incall

\* A text to split.
InitSplit ==
    /\ channels = [telegram |-> [enabled |-> FALSE], email |-> [enabled |-> FALSE],
                   napcat |-> [enabled |-> FALSE]]
    /\ dpc = "text"
    /\ message \in Texts
    /\ parts = << >>
    /\ part_idx = 0
    /\ sends = << >>
    /\ warnings = {}
    /\ incall = {}

----------------------------------------------------------------------------
(* rss_monitor.py: the poller *)

\* At most MaxItems entries in a fetched feed document.
MaxItems == 2

\* hashlib.md5(s.encode('utf-8')).hexdigest()
md5(s) == hexdigest("md5", "", s)

\* The entries feeds carry, as parse_rss_feed returns them: one with a guid,
\* one with neither guid nor link, and an edited entry under the guid of the
\* first.
Articles ==
    {[guid |-> "g1", link |-> "l1", title |-> "one", published |-> "p1"],
     [guid |-> "", link |-> "", title |-> "four", published |-> "p4"],
     [guid |-> "g1", link |-> "l1b", title |-> "one, edited", published |-> "p5"]}

\* CONFIG['rss']['feeds']
Feeds ==
    <<[name |-> "a", url |-> "http://a/feed", enabled |-> TRUE],
      [name |-> "b", url |-> "http://b/feed", enabled |-> TRUE],
      [name |-> "c", url |-> "http://c/feed", enabled |-> FALSE]>>

\* RSSPayloadParser.parse_rss_feed: the entries of the feed document, none
\* for a document that cannot be fetched or parsed.
FetchResults == UNION {[1..n -> Articles] : n \in 0..MaxItems}

\* RSSMonitor.get_article_id, were the link looked at before the guid.
Mut_get_article_id_LinkFirst(article) ==
    IF Truthy(Get(article, "link", NoneStr)) THEN md5(article["link"])
    ELSE IF Truthy(Get(article, "guid", NoneStr)) THEN md5(article["guid"])
    ELSE md5(Get(article, "title", "") \o Get(article, "published", ""))

\* RSSMonitor.get_article_id
get_article_id(article) ==
    IF Truthy(Get(article, "guid", NoneStr)) THEN md5(article["guid"])
    ELSE IF Truthy(Get(article, "link", NoneStr)) THEN md5(article["link"])
    ELSE md5(Get(article, "title", "") \o Get(article, "published", ""))

Identities == {get_article_id(a) : a \in Articles}

RECURSIVE Mut_DiffLoop_NoAdd(_, _, _)
\* The loop of check_feed without self.seen_articles.add(article_id).
Mut_DiffLoop_NoAdd(articles, seen, new_articles) ==
    IF articles = << >>
    THEN [new_articles |-> new_articles, seen_articles |-> seen]
    ELSE IF get_article_id(Head(articles)) \notin seen
         THEN Mut_DiffLoop_NoAdd(Tail(articles), seen,
                                 Append(new_articles, Head(articles)))
         ELSE Mut_DiffLoop_NoAdd(Tail(articles), seen, new_articles)

RECURSIVE DiffLoop(_, _, _)
\* RSSMonitor.check_feed: the loop over the fetched articles.
DiffLoop(articles, seen, new_articles) ==
    IF articles = << >>
    THEN [new_articles |-> new_articles, seen_articles |-> seen]
    ELSE LET article_id == get_article_id(Head(articles))
         IN  IF article_id \notin seen
             THEN DiffLoop(Tail(articles), seen \cup {article_id},
                           Append(new_articles, Head(articles)))
             ELSE DiffLoop(Tail(articles), seen, new_articles)

\* RSSMonitor.check_feed that does not record the identities it returns.
Mut_check_feed_NoAdd(feed_config, articles, seen) ==
    IF ~feed_config.enabled \/ feed_config.url = ""
    THEN [new_articles |-> << >>, seen_articles |-> seen]
    ELSE Mut_DiffLoop_NoAdd(articles, seen, << >>)

\* RSSMonitor.check_feed, articles being what parse_rss_feed returns: the
\* new articles and the store after the check.
check_feed(feed_config, articles, seen) ==
    IF ~feed_config.enabled \/ feed_config.url = ""
    THEN [new_articles |-> << >>, seen_articles |-> seen]
    ELSE DiffLoop(articles, seen, << >>)

RECURSIVE SetToSeq(_)
\* list(self.seen_articles)
SetToSeq(S) ==
    IF S = {} THEN << >>
    ELSE LET x == CHOOSE x \in S : TRUE IN <<x>> \o SetToSeq(S \ {x})

\* set(data.get('seen_articles', []))
SeqToSet(q) == {q[i] : i \in DOMAIN q}

\* The store after the dispatch of an article failed, were a failed delivery
\* to make the article unseen again.
Mut_StoreAfterDispatch_Forget(seen, article, outcome) ==
    IF outcome = "failed" THEN seen \ {get_article_id(article)} ELSE seen

\* RSSMonitor.send_notifications: the store after the dispatch of an article;
\* the dispatcher logs a failed send, the store is not touched.
StoreAfterDispatch(seen, article, outcome) == seen

NoCheck ==
    [feed |-> 0, articles |-> << >>, before |-> {}, new_articles |-> << >>,
     error |-> FALSE]

InitPoll ==
    /\ disk = << >>
    /\ seen_articles = SeqToSet(disk)
    /\ mpc = "start"
    /\ feed_idx = 0
    /\ all_new_articles = << >>
    /\ send_idx = 0
    /\ emitted = [id \in Identities |-> 0]
    /\ last_check = NoCheck
    /\ failed = {}
    /\ fault = "none"

\* start_monitoring enters check_all_feeds: at start, after each sleep and
\* after the sleep that follows an exception.
BeginCycle ==
    /\ mpc \in {"start", "sleep", "backoff"}
    /\ mpc' = "check"
    /\ feed_idx' = 1
    /\ all_new_articles' = << >>
    /\ last_check' = NoCheck
    /\ UNCHANGED <<seen_articles, disk, send_idx, emitted, failed, fault>>
    /\ UNCHANGED intakeVars
    /\ UNCHANGED dispatchVars
    /\ UNCHANGED incall

\* check_all_feeds, were an error inside check_feed to end the loop over the
\* feeds.
Mut_NextFeed_Abort(idx, error) == IF error THEN Len(Feeds) + 1 ELSE idx + 1

\* check_all_feeds: the feed checked after feed idx; check_feed and
\* parse_rss_feed catch and log their errors, the loop goes on.
NextFeed(idx, error) == idx + 1

\* check_all_feeds: check_feed on the next feed; its new articles are added
\* to all_new_articles. Only an enabled feed with a url is fetched; when the
\* fetch or the parsing of the document fails (error), parse_rss_feed logs
\* and returns no article.
CheckFeed(articles, error) ==
    /\ mpc = "check"
    /\ feed_idx <= Len(Feeds)
    /\ ~Feeds[feed_idx].enabled \/ Feeds[feed_idx].url = ""
          => articles = << >> /\ ~error
    /\ error => articles = << >>
    /\ LET r == check_feed(Feeds[feed_idx], articles, seen_articles)
       IN  /\ seen_articles' = r.seen_articles
           /\ all_new_articles' = all_new_articles \o r.new_articles
           /\ emitted' =
                 [id \in Identities |->
                     emitted[id] + Cardinality({i \in DOMAIN r.new_articles :
                                       get_article_id(r.new_articles[i]) = id})]
           /\ last_check' = [feed |-> feed_idx, articles |-> articles,
                             before |-> seen_articles,
                             new_articles |-> r.new_articles,
                             error |-> error]
    /\ fault' = IF error THEN "fetch" ELSE fault
    /\ feed_idx' = NextFeed(feed_idx, error)
    /\ UNCHANGED <<disk, mpc, send_idx, failed>>
    /\ UNCHANGED intakeVars
    /\ UNCHANGED dispatchVars
    /\ incall' = incall \ {"poller"}

\* check_all_feeds, were send_notifications started as a task of its own
\* instead of awaited: the cycle goes on to the save at once.
Mut_AfterChecks_Detached(new_articles) == "save"

\* check_all_feeds after the loop over the feeds: send_notifications is
\* awaited if there are new articles, and save_seen_articles follows it.
AfterChecks(new_articles) == IF new_articles # << >> THEN "send" ELSE "save"

\* check_all_feeds: all feeds are checked; send_notifications is entered if
\* there are new articles, else the store is saved next.
FeedsChecked ==
    /\ mpc = "check"
    /\ feed_idx > Len(Feeds)
    /\ mpc' = AfterChecks(all_new_articles)
    /\ send_idx' = 1
    /\ last_check' = NoCheck
    /\ fault' = "none"
    /\ UNCHANGED <<seen_articles, disk, feed_idx, all_new_articles, emitted,
                   failed>>
    /\ UNCHANGED intakeVars
    /\ UNCHANGED dispatchVars
    /\ UNCHANGED incall

\* start_monitoring without its try/except: an exception ends the loop.
Mut_AfterSend_Unguarded(outcome, last) ==
    IF outcome = "raised" THEN "stopped"
    ELSE IF last THEN "save" ELSE "send"

\* The position of start_monitoring after the dispatch of an article, the
\* last one or not: an exception that leaves send_notifications is caught
\* by the loop of start_monitoring, which logs it and sleeps a minute.
AfterSend(outcome, last) ==
    IF outcome = "raised" THEN "backoff"
    ELSE IF last THEN "save" ELSE "send"

\* send_notifications: the next article is formatted and, after the delay,
\* sent on the enabled channels; the dispatcher logs what fails, and raises
\* on a Telegram section without its keys.
SendNotification(outcome) ==
    /\ mpc = "send"
    /\ send_idx <= Len(all_new_articles)
    /\ outcome = "raised" <=> TelegramEntry(channels) = "KeyError"
    /\ failed' = IF outcome # "ok"
                 THEN failed \cup {get_article_id(all_new_articles[send_idx])}
                 ELSE failed
    /\ fault' = CASE outcome = "failed" -> "delivery"
                  [] outcome = "raised" -> "raised"
                  [] OTHER -> fault
    /\ seen_articles' =
          StoreAfterDispatch(seen_articles, all_new_articles[send_idx], outcome)
    /\ send_idx' = send_idx + 1
    /\ mpc' = AfterSend(outcome, send_idx = Len(all_new_articles))
    /\ UNCHANGED <<disk, feed_idx, all_new_articles, emitted, last_check>>
    /\ UNCHANGED intakeVars
    /\ UNCHANGED dispatchVars
    /\ UNCHANGED incall

\* save_seen_articles, were a failed write to drop the set in memory.
Mut_StoreAfterSave_Drop(seen, ok) == IF ok THEN seen ELSE {}

\* save_seen_articles: the set in memory after the call; it is only read, and
\* a failed write is caught and logged.
StoreAfterSave(seen, ok) == seen

\* save_seen_articles at the end of check_all_feeds: the file is rewritten,
\* or the write fails and is logged; then the loop sleeps.
SaveSeenArticles(ok) ==
    /\ mpc = "save"
    /\ disk' = IF ok THEN SetToSeq(seen_articles) ELSE disk
    /\ seen_articles' = StoreAfterSave(seen_articles, ok)
    /\ fault' = IF ok THEN fault ELSE "persist"
    /\ mpc' = "sleep"
    /\ UNCHANGED <<feed_idx, all_new_articles, send_idx, emitted, last_check,
                   failed>>
    /\ UNCHANGED intakeVars
    /\ UNCHANGED dispatchVars
    /\ UNCHANGED incall

\* main.py shutdown_event: save_seen_articles is called wherever the loop of
\* start_monitoring stands, and the process ends.
Shutdown(ok) ==
    /\ mpc # "stopped"
    /\ disk' = IF ok THEN SetToSeq(seen_articles) ELSE disk
    /\ seen_articles' = StoreAfterSave(seen_articles, ok)
    /\ fault' = IF ok THEN fault ELSE "persist"
    /\ mpc' = "stopped"
    /\ UNCHANGED <<feed_idx, all_new_articles, send_idx, emitted, last_check,
                   failed>>
    /\ UNCHANGED intakeVars
    /\ UNCHANGED dispatchVars
    /\ UNCHANGED incall

\* main.py shutdown_event by itself: the server has stopped serving requests
\* and save_seen_articles is called; the task of start_monitoring is not
\* cancelled and goes on until the event loop is closed.
ShutdownEvent(ok) ==
    /\ pc = "idle"
    /\ mpc # "stopped"
    /\ pc' = "closed"
    /\ disk' = IF ok THEN SetToSeq(seen_articles) ELSE disk
    /\ seen_articles' = StoreAfterSave(seen_articles, ok)
    /\ fault' = IF ok THEN fault ELSE "persist"
    /\ UNCHANGED <<CONFIG, request, response, tasks>>
    /\ UNCHANGED <<mpc, feed_idx, all_new_articles, send_idx, emitted,
                   last_check, failed>>
    /\ UNCHANGED dispatchVars
    /\ UNCHANGED incall

\* The event loop is closed after the shutdown: the task of start_monitoring
\* is cancelled where it stands; CancelledError is no Exception, nothing
\* catches it and nothing is saved.
Terminate ==
    /\ pc = "closed"
    /\ mpc # "stopped"
    /\ mpc' = "stopped"
    /\ UNCHANGED intakeVars
    /\ UNCHANGED <<seen_articles, disk, feed_idx, all_new_articles, send_idx,
                   emitted, last_check, failed, fault>>
    /\ UNCHANGED dispatchVars
    /\ UNCHANGED incall

\* The process is killed and started again: RSSMonitor.__init__ loads the
\* store from the file.  A kill inside save_seen_articles, after open(..., 'w')
\* has truncated the file and before json.dump has written it (torn), leaves
\* a file that json.load rejects: load_seen_articles logs the error and the
\* store stays empty, as with a file holding no identity.
Crash(torn) ==
    /\ mpc # "stopped"
    /\ torn => mpc = "save"
    /\ disk' = IF torn THEN << >> ELSE disk
    /\ seen_articles' = SeqToSet(disk')
    /\ mpc' = "start"
    /\ feed_idx' = 0
    /\ all_new_articles' = << >>
    /\ send_idx' = 0
    /\ emitted' = [id \in Identities |-> 0]
    /\ last_check' = NoCheck
    /\ failed' = {}
    /\ fault' = "none"
    /\ UNCHANGED intakeVars
    /\ UNCHANGED dispatchVars
    /\ UNCHANGED incall

NextPoll ==
    \/ BeginCycle
    \/ \E articles \in FetchResults, error \in BOOLEAN : CheckFeed(articles, error)
    \/ FeedsChecked
    \/ \E outcome \in {"ok", "failed", "raised"} : SendNotification(outcome)
    \/ \E ok \in BOOLEAN : SaveSeenArticles(ok)

----------------------------------------------------------------------------
(* The specifications *)

\* Deliveries on the channels of a complete configuration.
CompleteChannels ==
    {[telegram |-> [enabled |-> TRUE, bot_token |-> "token", chat_id |-> "chat"],
      email |-> [enabled |-> FALSE],
      napcat |-> [enabled |-> FALSE]]}

Init == InitIntake /\ InitPoll /\ InitDispatch(CompleteChannels)

\* The webhook intake and its delivery tasks.
SpecIntake == Init /\ [][NextIntake]_vars

\* The channel sections the poller runs under: a complete one, and one
\* whose Telegram section lacks bot_token.
PollChannels ==
    CompleteChannels
    \cup {[telegram |-> [enabled |-> TRUE, chat_id |-> "chat"],
            email |-> [enabled |-> FALSE],
            napcat |-> [enabled |-> FALSE]]}

\* The polling loop.
InitPolling == InitIntake /\ InitPoll /\ InitDispatch(PollChannels)

SpecPoll == InitPolling /\ [][NextPoll]_vars

\* Fetched documents of at most one entry.
ServiceFetches == UNION {[1..n -> Articles] : n \in 0..1}

\* The polling loop on documents of at most one entry.
NextLoop ==
    \/ BeginCycle
    \/ \E articles \in ServiceFetches, error \in BOOLEAN : CheckFeed(articles, error)
    \/ FeedsChecked
    \/ \E outcome \in {"ok", "failed", "raised"} : SendNotification(outcome)
    \/ \E ok \in BOOLEAN : SaveSeenArticles(ok)

\* The polling loop of a process that can be killed and started again, every
\* save that runs to its end succeeding.
NextRestart ==
    \/ BeginCycle
    \/ \E articles \in ServiceFetches, error \in BOOLEAN : CheckFeed(articles, error)
    \/ FeedsChecked
    \/ \E outcome \in {"ok", "failed", "raised"} : SendNotification(outcome)
    \/ SaveSeenArticles(TRUE)
    \/ \E torn \in BOOLEAN : Crash(torn)

SpecRestart == InitPolling /\ [][NextRestart]_vars

\* The polling loop of a process that is shut down.
NextShutdown ==
    \/ BeginCycle
    \/ \E articles \in ServiceFetches, error \in BOOLEAN : CheckFeed(articles, error)
    \/ FeedsChecked
    \/ \E outcome \in {"ok", "failed", "raised"} : SendNotification(outcome)
    \/ \E ok \in BOOLEAN : SaveSeenArticles(ok)
    \/ \E ok \in BOOLEAN : ShutdownEvent(ok)
    \/ Terminate

SpecShutdown == InitPolling /\ [][NextShutdown]_vars

\* One unsigned request with document 1 on every route, the Git one as a
\* GitHub push.
FrameRequests ==
    {r \in Requests :
        /\ r.body = "1"
        /\ DOMAIN r.headers \subseteq {"Content-Type", "X-GitHub-Event"}
        /\ r.route = "/webhook/git" =>
              "X-GitHub-Event" \in DOMAIN r.headers
              /\ r.headers["X-GitHub-Event"] = "push"}

\* The webhook intake on every route, with its delivery tasks, next to the
\* polling loop.
NextFrame ==
    \/ \E req \in FrameRequests : Receive(req)
    \/ HandleGitWebhook
    \/ HandleGenericWebhook
    \/ HandleRssWebhook
    \/ HandleNetlifyWebhook
    \/ Reply
    \/ \E i \in DOMAIN tasks : RunTask(i)
    \/ BeginCycle
    \/ \E articles \in ServiceFetches, error \in BOOLEAN : CheckFeed(articles, error)
    \/ FeedsChecked
    \/ \E outcome \in {"ok", "failed"} : SendNotification(outcome)
    \/ \E ok \in BOOLEAN : SaveSeenArticles(ok)

SpecFrame == Init /\ [][NextFrame]_vars

\* The entries of the feeds and, next to them, an entry with a link and no
\* guid and a second entry with neither, under the title of the first.
IdentityArticles ==
    Articles \cup
    {[guid |-> "", link |-> "l1", title |-> "one", published |-> "p1"],
     [guid |-> "", link |-> "", title |-> "four", published |-> "p6"]}

\* The feed documents of at most two of these entries.
IdentityFetches == UNION {[1..n -> IdentityArticles] : n \in 0..2}

\* The polling loop on feeds of these entries, deliveries and saves
\* succeeding.
NextIdentity ==
    \/ BeginCycle
    \/ \E articles \in IdentityFetches : CheckFeed(articles, FALSE)
    \/ FeedsChecked
    \/ SendNotification("ok")
    \/ SaveSeenArticles(TRUE)

SpecIdentity == InitPolling /\ [][NextIdentity]_vars

\* The polling loop, scheduled: the event loop runs the task whenever it can
\* take a step, and every sleep and every awaited call returns.
SpecPollFair == InitPolling /\ [][NextLoop]_vars /\ WF_vars(NextLoop)

\* One delivery task at a time, under every configuration of the channels.
InitDelivery == InitIntake /\ InitPoll /\ InitDispatch(ChannelConfigs)

SpecDispatch == InitDelivery /\ [][NextDispatch]_vars

\* The requests of the service as a whole: notifications pushed to
\* /webhook/rss with document 1.
ServiceRequests == {r \in Requests : r.route = "/webhook/rss" /\ r.body = "1"}

\* The service as a whole until it is shut down: the webhook intake with its
\* delivery tasks next to the polling loop.
NextService ==
    \/ mpc # "stopped" /\ \E req \in ServiceRequests : Receive(req)
    \/ mpc # "stopped" /\ HandleRssWebhook
    \/ mpc # "stopped" /\ Reply
    \/ mpc # "stopped" /\ \E i \in DOMAIN tasks : RunTask(i)
    \/ BeginCycle
    \/ \E articles \in ServiceFetches, error \in BOOLEAN : CheckFeed(articles, error)
    \/ FeedsChecked
    \/ \E outcome \in {"ok", "failed"} : SendNotification(outcome)
    \/ \E ok \in BOOLEAN : SaveSeenArticles(ok)
    \/ \E ok \in BOOLEAN : Shutdown(ok)

SpecService == Init /\ [][NextService]_vars

\* The requests of the acknowledged deliveries: GitHub notifications with
\* document 1, of every event kind and with every signature value.
AckRequests ==
    {r \in RequestsOf("/webhook/git", "X-GitHub-Event",
                      {"push", "create", "ping"}, {"X-Hub-Signature"}) :
        r.body = "1"}

\* The oldest delayed_notification_task starts: it logs and begins its
\* sleep.
TaskStarts ==
    /\ tasks # << >>
    /\ dpc = "idle"
    /\ \E text \in DispatchMessages : StartDelivery(text)

\* delayed_notification_task returns, or ends with the exception it raised.
TaskEnds ==
    /\ tasks # << >>
    /\ dpc \in {"done", "raised"}
    /\ tasks' = Tail(tasks)
    /\ dpc' = "idle"
    /\ UNCHANGED <<CONFIG, pc, request, response>>
    /\ UNCHANGED <<channels, message, parts, part_idx, sends, warnings>>
    /\ UNCHANGED pollVars
    /\ UNCHANGED incall

\* The intake with the deliveries of its tasks, one task after the other.
NextAck ==
    \/ \E req \in AckRequests : Receive(req)
    \/ HandleGitWebhook
    \/ Reply
    \/ TaskStarts
    \/ EnterTelegram
    \/ \E outcome \in Outcomes : SendChunk(outcome)
    \/ LeaveTelegram
    \/ \E outcome \in Outcomes : SendEmail(outcome)
    \/ EnterNapcat
    \/ \E outcome \in Outcomes : NapcatPrivate(outcome)
    \/ \E outcome \in Outcomes : NapcatGroup(outcome)
    \/ TaskEnds

\* Telegram alone, and all three channels.
AckChannels ==
    CompleteChannels
    \cup {[telegram |-> [enabled |-> TRUE, bot_token |-> "token", chat_id |-> "chat"],
           email |-> [enabled |-> TRUE, smtp_server |-> "smtp",
                      recipient_emails |-> "rcpt"],
           napcat |-> NapcatDefault]}

InitAck == InitIntake /\ InitPoll /\ InitDispatch(AckChannels)

SpecAck == InitAck /\ [][NextAck]_vars

\* The outbound call the delivery task makes next: a post to Telegram, an
\* SMTP session, a post to Napcat, or none.
DeliveryCall ==
    CASE dpc = "chunks" /\ part_idx <= Len(parts) -> "telegram"
      [] dpc = "email" /\ EmailEntry(channels) = "send" -> "email"
      [] dpc = "napcat_private"
           /\ NapcatTarget(channels, "private", "user_id") = "send" -> "napcat"
      [] dpc = "napcat_group"
           /\ NapcatTarget(channels, "group", "group_id") = "send" -> "napcat"
      [] OTHER -> "none"

\* The outbound call the polling loop makes next: the fetch of a feed, or
\* none.
PollerCall ==
    IF /\ mpc = "check" /\ feed_idx <= Len(Feeds)
       /\ Feeds[feed_idx].enabled /\ Feeds[feed_idx].url # ""
    THEN "fetch" ELSE "none"

\* The calls that are made without await, on the thread of the event loop:
\* send_email runs its smtplib session and parse_rss_feed runs
\* feedparser.parse inside the coroutine that calls them; the posts to
\* Telegram and Napcat are awaited on an httpx.AsyncClient.
SynchronousCalls == {"email", "fetch"}

\* The task that keeps the thread of the event loop: the one inside a
\* synchronous call, if any.
ThreadHolder ==
    IF "delivery" \in incall /\ DeliveryCall \in SynchronousCalls THEN "delivery"
    ELSE IF "poller" \in incall /\ PollerCall \in SynchronousCalls THEN "poller"
    ELSE "none"

\* The event loop can run a step of the task.
Runs(task) == ThreadHolder \in {"none", task}

\* A task enters its next outbound call.
CallBegins(task) ==
    /\ Runs(task)
    /\ task \notin incall
    /\ task = "delivery" => DeliveryCall # "none"
    /\ task = "poller" => PollerCall # "none"
    /\ incall' = incall \cup {task}
    /\ UNCHANGED <<intakeVars, pollVars, dispatchVars>>

\* The request of the event loop's intake: a GitHub ping without signature.
LoopRequests ==
    {r \in AckRequests : /\ "X-Hub-Signature" \notin DOMAIN r.headers
                         /\ r.headers["X-GitHub-Event"] = "ping"}

\* The fetched documents of the event loop's poller: without entries.
LoopFetches == {<< >>}

\* What the intake does next.
IntakeProgram ==
    \/ \E req \in LoopRequests : Receive(req)
    \/ HandleGitWebhook
    \/ Reply
    \/ \E i \in DOMAIN tasks : RunTask(i)

\* What the delivery task does next; a call returns only after it was made.
DeliveryProgram ==
    /\ DeliveryCall # "none" => "delivery" \in incall
    /\ NextDispatch

\* What the polling loop does next; a fetch returns only after it was made.
PollerProgram ==
    /\ PollerCall # "none" => "poller" \in incall
    /\ \/ BeginCycle
       \/ \E articles \in LoopFetches, error \in BOOLEAN : CheckFeed(articles, error)
       \/ FeedsChecked
       \/ \E ok \in BOOLEAN : SaveSeenArticles(ok)

IntakeStep == Runs("intake") /\ IntakeProgram

DeliveryStep == Runs("delivery") /\ DeliveryProgram

PollerStep == Runs("poller") /\ PollerProgram

\* The event loop: one thread runs the intake, a delivery task and the
\* polling loop, a step of one of them at a time.
NextEventLoop ==
    \/ IntakeStep
    \/ DeliveryStep
    \/ PollerStep
    \/ CallBegins("delivery")
    \/ CallBegins("poller")

\* All three channels, complete.
LoopChannels ==
    {[telegram |-> [enabled |-> TRUE, bot_token |-> "token", chat_id |-> "chat"],
      email |-> [enabled |-> TRUE, smtp_server |-> "smtp",
                 recipient_emails |-> "rcpt"],
      napcat |-> NapcatDefault]}

InitEventLoop == InitIntake /\ InitPoll /\ InitDispatch(LoopChannels)

SpecEventLoop == InitEventLoop /\ [][NextEventLoop]_vars

\* The splitter on every text.
InitSplitting == InitIntake /\ InitPoll /\ InitSplit

SpecSplit == InitSplitting /\ [][SplitText]_vars

----------------------------------------------------------------------------
(* The vocabulary of the claims about the intake *)

\* The platform a request is handled as.
PlatformOf(req) ==
    CASE req.route = "/webhook/git" -> GitPlatform(LowerKeys(RequestHeaders(req)))
      [] req.route = "/webhook/generic" -> "generic"
      [] req.route = "/webhook/rss" -> "rss"
      [] req.route = "/webhook/netlify" -> "netlify"

\* The payload the handler of a request parses out of its body.
ParsedBody(req) ==
    IF req.route = "/webhook/git"
    THEN ParseGitBody(Get(RequestHeaders(req), "content-type", ""), req.body)
    ELSE json_loads(req.body)

\* The handler gives up before it calls the normalizer: no body, a body that
\* does not parse, or (on all routes but the generic one) the payload {}.
IsParseError(req) ==
    \/ req.body = ""
    \/ ~ParsedBody(req).ok
    \/ (req.route # "/webhook/generic" /\ EmptyPayload(ParsedBody(req).value))

\* The verification step of the platform's normalizer passes.
VerificationPasses(req, config) ==
    LET headers == RequestHeaders(req)
        payload == ParsedBody(req).value
        platform == PlatformOf(req)
    IN  CASE platform = "github" ->
                verify_github(headers, payload, config["github"], req.body)
          [] platform = "gitlab" ->
                verify_gitlab(headers, payload, config["gitlab"])
          [] platform = "gitea" ->
                verify_gitea(headers, payload, config["gitea"], req.body)
          [] platform = "gogs" ->
                verify_gogs(headers, payload, config["gogs"])
          [] platform = "generic" ->
                verify_generic(headers, payload, config["generic"], req.body)
          [] platform = "netlify" ->
                verify_netlify(headers, payload, config["netlify"], req.body)
          [] platform = "rss" ->
                _verify_webhook_signature(req.body, config["rss"],
                    Get(LowerKeys(headers), "x-rss-signature", ""))

\* What the platform's normalizer returns for a request.
Normalize(req, config, now) ==
    LET headers == RequestHeaders(req)
        payload == ParsedBody(req).value
        platform == PlatformOf(req)
    IN  CASE platform = "generic" ->
                generic_parse_payload(headers, payload, config["generic"], req.body)
          [] platform = "netlify" ->
                netlify_parse_payload(headers, payload, config["netlify"], req.body)
          [] platform = "rss" ->
                parse_rss_webhook(headers, payload, config["rss"], req.body, now)
          [] OTHER -> GitParse(platform, headers, payload, config, req.body)

\* The outcome of the pipeline for a request.  An RSS push without article
\* is a payload of the wrong format for its parser: a parse error.
Outcome(req, config) ==
    IF IsParseError(req) THEN "ParseError"
    ELSE IF PlatformOf(req) = "unknown" THEN "UnknownPlatform"
    ELSE IF ~VerificationPasses(req, config) THEN "Unauthorized"
    ELSE IF \A now \in Times : Normalize(req, config, now) = None
         THEN IF PlatformOf(req) = "rss" THEN "ParseError" ELSE "NoEvent"
    ELSE "Event"

\* What the handler of its route does with a request.
Handle(req, config, now) ==
    CASE req.route = "/webhook/git" -> handle_git_webhook(req, config)
      [] req.route = "/webhook/generic" -> webhook_generic(req, config)
      [] req.route = "/webhook/rss" -> handle_rss_webhook(req, config, now)
      [] req.route = "/webhook/netlify" -> handle_netlify_webhook(req, config)

\* The header a platform reads its signature or token from, as a client
\* sends it.
SignatureHeader(platform) ==
    CASE platform = "github" -> {"X-Hub-Signature"}
      [] platform = "gitlab" -> {"X-Gitlab-Token"}
      [] platform = "gitea" -> {"X-Gitea-Signature"}
      [] platform = "gogs" -> {"X-Gogs-Signature"}
      [] platform = "generic" -> {"X-Hub-Signature-256", "X-Signature"}
      [] platform = "netlify" -> {"X-Webhook-Signature"}
      [] platform = "rss" -> {"X-RSS-Signature"}
      [] OTHER -> {}

\* The signature a platform's sender computes with the secret over a body.
PlatformSignature(platform, secret, body) ==
    CASE platform = "github" -> "sha1=" \o hexdigest("sha1", secret, body)
      [] platform = "generic" -> "sha256=" \o hexdigest("sha256", secret, body)
      [] OTHER -> hexdigest("sha256", secret, body)

\* The signature or token a request presents (NoneStr: none).
PresentedSignature(req) ==
    LET names == SignatureHeader(PlatformOf(req)) \cap DOMAIN req.headers
    IN  IF names = {} THEN NoneStr ELSE req.headers[CHOOSE n \in names : TRUE]

\* The request carries the platform's signature of its own raw body.
CorrectlySigned(req, config) ==
    /\ PlatformOf(req) \in {"github", "gitea", "gogs", "generic", "netlify"}
    /\ config[PlatformOf(req)] # ""
    /\ PresentedSignature(req) =
           PlatformSignature(PlatformOf(req), config[PlatformOf(req)], req.body)

\* Two bodies of the same length that differ in exactly one byte.
OneByteApart(a, b) ==
    /\ Len(a) = Len(b)
    /\ Cardinality({i \in 1..Len(a) : SubSeq(a, i, i) # SubSeq(b, i, i)}) = 1

----------------------------------------------------------------------------
(* Claims about the intake *)

\* C1 (as claimed): for GitHub, Gitea, Gogs, Generic and Netlify with a
\* non-empty secret, a request that parses and carries the platform's
\* signature over its raw body passes verification and is normalized: it is
\* not answered with the rejection for a failed verification.
C1_CorrectSignatureAccepted ==
    (pc = "responded" /\ ~IsParseError(request) /\ CorrectlySigned(request, CONFIG))
        => /\ VerificationPasses(request, CONFIG)
           /\ Outcome(request, CONFIG) \in {"Event", "NoEvent"}
           /\ (Outcome(request, CONFIG) = "Event" => response.status = 200)

\* The platforms whose scheme is a digest of the body.
DigestPlatforms == {"github", "gitea", "gogs", "generic", "netlify"}

\* The push platforms: all but the RSS push path.
PushPlatforms == DigestPlatforms \cup {"gitlab"}

\* C2 (as claimed, for the platforms that verify a digest of the body): with
\* a non-empty secret, when a request is accepted, the request with the same
\* headers and a body one byte apart is rejected.
C2_AlteredBodyRejected ==
    (/\ pc = "responded"
     /\ PlatformOf(request) \in DigestPlatforms
     /\ CONFIG[PlatformOf(request)] # ""
     /\ response.status = 200)
        => \A b \in Bodies :
              OneByteApart(request.body, b)
                 => LET altered == [request EXCEPT !.body = b]
                    IN  /\ Outcome(altered, CONFIG) \in {"Unauthorized", "ParseError"}
                        /\ \A now \in Times :
                              Handle(altered, CONFIG, now).response.status # 200

\* C3: with an empty secret a push platform's verification passes whatever
\* signature or token is presented, also none: the request is normalized,
\* and accepted when it carries an event.
C3_EmptySecretPasses ==
    (/\ pc = "responded"
     /\ ~IsParseError(request)
     /\ PlatformOf(request) \in PushPlatforms
     /\ CONFIG[PlatformOf(request)] = "")
        => /\ VerificationPasses(request, CONFIG)
           /\ Outcome(request, CONFIG) \in {"Event", "NoEvent"}
           /\ (Outcome(request, CONFIG) = "Event" => response.status = 200)

\* C3 witness: a request with a signature that is no digest is accepted
\* under an empty secret.
C3_Witness ==
    /\ pc = "responded"
    /\ PlatformOf(request) = "github"
    /\ CONFIG["github"] = ""
    /\ PresentedSignature(request) = "garbage"
    /\ response.status = 200

\* A presented value that is absent, empty or not of the platform's format.
AbsentOrMalformed(platform, sig) ==
    \/ sig \in {NoneStr, "", "garbage"}
    \/ (platform = "generic" /\ ~startswith(sig, "sha256="))

\* C4: with a non-empty secret, a push platform's request without signature
\* or token header, or with a malformed one, fails verification; the
\* normalizer returns no event and the request is not accepted.
C4_MissingSignatureFails ==
    (/\ pc = "responded"
     /\ ~IsParseError(request)
     /\ PlatformOf(request) \in PushPlatforms
     /\ CONFIG[PlatformOf(request)] # ""
     /\ AbsentOrMalformed(PlatformOf(request), PresentedSignature(request)))
        => /\ ~VerificationPasses(request, CONFIG)
           /\ \A now \in Times : Normalize(request, CONFIG, now) = None
           /\ response.status # 200

\* C4 witness: a GitHub push with new commits and no signature header is
\* rejected under a non-empty secret.
C4_Witness ==
    /\ pc = "responded"
    /\ PlatformOf(request) = "github"
    /\ CONFIG["github"] # ""
    /\ ~IsParseError(request)
    /\ ParsedBody(request).value = Documents["1"]
    /\ PresentedSignature(request) = NoneStr
    /\ response.status = 400
    /\ tasks = << >>

\* A request without its RSS signature header.
WithoutRssSignature(req) ==
    [req EXCEPT !.headers = [n \in DOMAIN req.headers \ {"X-RSS-Signature"} |->
                                req.headers[n]]]

\* A request with a value in its RSS signature header.
WithRssSignature(req, sig) ==
    [req EXCEPT !.headers =
        WithoutRssSignature(req).headers @@ ("X-RSS-Signature" :> sig)]

\* C5: on the RSS push path the response, and the event handed to the
\* delivery task, are those of the same request without signature header,
\* whatever signature is presented; the request is never unauthorized.
C5_RssVerificationAdvisory ==
    (pc = "responded" /\ request.route = "/webhook/rss")
        => /\ Outcome(request, CONFIG) # "Unauthorized"
           /\ \E now \in Times :
                  response =
                      handle_rss_webhook(WithoutRssSignature(request), CONFIG,
                                         now).response
           /\ \A now \in Times :
                  \A sig \in SigValues(request.body) \ {NoneStr} :
                     handle_rss_webhook(WithRssSignature(request, sig), CONFIG, now)
                        = handle_rss_webhook(WithoutRssSignature(request), CONFIG, now)

\* C5 witness: an RSS push signed with another key than the configured one
\* is accepted.
C5_Witness ==
    /\ pc = "responded"
    /\ request.route = "/webhook/rss"
    /\ CONFIG["rss"] = K1
    /\ PresentedSignature(request) = hexdigest("sha256", K2, request.body)
    /\ response.status = 200

NonEventOutcomes == {"ParseError", "Unauthorized", "NoEvent"}

\* C6 (as claimed): the responses to a parse error, to a failed verification
\* and to a verified request without event differ from one another.
C6_OutcomesDistinguishable ==
    (pc = "responded" /\ Outcome(request, CONFIG) \in NonEventOutcomes)
        => \A r \in Requests :
              (/\ r.route = request.route
               /\ Outcome(r, CONFIG) \in NonEventOutcomes
               /\ Outcome(r, CONFIG) # Outcome(request, CONFIG))
                  => \A now \in Times : Handle(r, CONFIG, now).response # response

\* C7 (as claimed): a request is rejected only when it is unauthorized, a
\* parse error or of an unrecognized platform; every other request, also a
\* verified one without event, is acknowledged as accepted.
C7_RejectedOnlyForErrors ==
    (/\ pc = "responded"
     /\ Outcome(request, CONFIG) \notin {"Unauthorized", "ParseError",
                                          "UnknownPlatform"})
        => response.status = 200

\* C8: a delivery task is created only by the handler of a request whose
\* normalizer returned an event, and it carries that event.
C8_TasksOnlyForEvents ==
    [][Len(tasks') > Len(tasks)
          => /\ pc = "received"
             /\ Outcome(request, CONFIG) = "Event"
             /\ tasks'[Len(tasks')].payload # None
             /\ tasks'[Len(tasks')].payload \in
                    {Normalize(request, CONFIG, now) : now \in Times}]_vars

\* C8 witness: the handler of a verified GitHub push with commits has
\* answered and left the delivery task of that event behind.
C8_Witness ==
    /\ pc = "responded"
    /\ PlatformOf(request) = "github"
    /\ CONFIG["github"] # ""
    /\ Outcome(request, CONFIG) = "Event"
    /\ response.status = 200
    /\ Len(tasks) = 1
    /\ tasks[1].payload \in {Normalize(request, CONFIG, now) : now \in Times}

----------------------------------------------------------------------------
(* The claims about the poller *)

\* The identities of the articles of a list, in order.
IdsOf(articles) == [i \in DOMAIN articles |-> get_article_id(articles[i])]

\* The positions of a fetched list whose identity was stored before the check.
StoredPositions(check) ==
    {i \in DOMAIN check.articles : IdsOf(check.articles)[i] \in check.before}

\* The fetched items whose identity was not stored are pairwise distinct.
OthersDistinct(check) ==
    \A i, j \in DOMAIN check.articles \ StoredPositions(check) :
        IdsOf(check.articles)[i] = IdsOf(check.articles)[j] => i = j

\* C9: over the poll cycles of one process lifetime each identity is emitted
\* at most once and is held once in the store, in memory and in the file; and
\* a check_feed whose fetch returns n items of which k have a stored identity,
\* the others pairwise distinct, returns n-k new articles and adds n-k
\* identities to the store.
C9_EachIdentityEmittedOnce ==
    /\ \A id \in Identities :
          /\ emitted[id] <= 1
          /\ emitted[id] = 1 => id \in seen_articles
    /\ \A i, j \in DOMAIN disk : disk[i] = disk[j] => i = j
    /\ last_check.feed # 0 /\ OthersDistinct(last_check) =>
          LET n == Len(last_check.articles)
              k == Cardinality(StoredPositions(last_check))
          IN  /\ Len(last_check.new_articles) = n - k
              /\ Cardinality(seen_articles \ last_check.before) = n - k
              /\ last_check.before \subseteq seen_articles

\* A fetch of two items, one stored by an earlier cycle and one new, has just
\* been checked.
C9_Witness ==
    /\ last_check.feed # 0
    /\ Len(last_check.articles) = 2
    /\ Cardinality(StoredPositions(last_check)) = 1
    /\ Len(last_check.new_articles) = 1
    /\ \E id \in last_check.before : emitted[id] = 1 /\ id \in SeqToSet(disk)

\* C10: the identity of every article handed to send_notifications is in
\* the store before its dispatch starts and stays there when its delivery
\* fails, and an identity whose delivery failed is not emitted again.
C10_StoredBeforeDispatch ==
    /\ \A i \in DOMAIN all_new_articles :
          get_article_id(all_new_articles[i]) \in seen_articles
    /\ failed \subseteq seen_articles
    /\ \A id \in failed : emitted[id] = 1
    /\ last_check.feed # 0 =>
          \A i \in DOMAIN last_check.new_articles :
              get_article_id(last_check.new_articles[i]) \notin failed

\* An article whose delivery failed in an earlier cycle has been fetched
\* again, and the check returned nothing new.
C10_Witness ==
    /\ last_check.feed # 0
    /\ last_check.new_articles = << >>
    /\ \E i \in DOMAIN last_check.articles :
          get_article_id(last_check.articles[i]) \in failed

----------------------------------------------------------------------------
(* The claims about the dispatcher *)

\* C11: every chunk the splitter produces is at most max_length long, for
\* every text, also one with a line longer than max_length or exactly
\* max_length long.
C11_ChunksWithinLimit ==
    dpc = "split" => \A i \in DOMAIN parts : Len(parts[i]) <= max_length

\* A text with a line longer than max_length and a line of exactly
\* max_length has been split into more than two chunks.
C11_Witness ==
    /\ dpc = "split"
    /\ \E i, j \in DOMAIN split(message, "\n") :
          /\ Len(split(message, "\n")[i]) > max_length
          /\ Len(split(message, "\n")[j]) = max_length
    /\ Len(parts) > 2
    /\ \E i \in DOMAIN parts : Len(parts[i]) = max_length

RECURSIVE Rejoin(_, _)
\* The chunks concatenated, seps[i] put between chunk i and chunk i+1.
Rejoin(chunks, seps) ==
    IF chunks = << >> THEN ""
    ELSE IF Len(chunks) = 1 THEN chunks[1]
    ELSE chunks[1] \o seps[1]
            \o Rejoin(Tail(chunks), [i \in 1..(Len(seps) - 1) |-> seps[i + 1]])

\* C12 (as claimed): the chunks of a text longer than max_length,
\* concatenated in order with a line break or nothing at each boundary,
\* reproduce the text.
C12_ChunksReproduceText ==
    (dpc = "split" /\ Len(message) > max_length)
        => \E seps \in [1..(Len(parts) - 1) -> {"", "\n"}] :
              Rejoin(parts, seps) = message

\* The transport calls of a channel, in order.
SendsOn(channel) == SelectSeq(sends, LAMBDA call : call.channel = channel)

\* C13: the chunks of a message are sent in order, each once: while the
\* parts are being sent the calls made are the parts before the next one, and
\* after the last one they are all the parts, whatever the outcomes were.
C13_ChunksInOrderOnce ==
    TelegramEntry(channels) = "send" /\ dpc \notin {"idle", "sleep"}
        => /\ Len(SendsOn("telegram")) =
                 (IF dpc = "chunks" THEN part_idx - 1 ELSE Len(parts))
           /\ \A i \in DOMAIN SendsOn("telegram") :
                 SendsOn("telegram")[i].text = parts[i]

\* The second of three chunks has failed and the third has been sent.
C13_Witness ==
    /\ dpc = "email"
    /\ Len(parts) = 3
    /\ Len(SendsOn("telegram")) = 3
    /\ SendsOn("telegram")[2].outcome = "failed"
    /\ SendsOn("telegram")[3].text = parts[3]

\* The channels that are enabled and configured to send.
SendingChannels ==
    {c \in {"telegram", "email", "napcat"} :
        CASE c = "telegram" -> TelegramEntry(channels) = "send"
          [] c = "email" -> EmailEntry(channels) = "send"
          [] c = "napcat" ->
                /\ NapcatEntry(channels) = "send"
                /\ \/ NapcatTarget(channels, "private", "user_id") = "send"
                   \/ NapcatTarget(channels, "group", "group_id") = "send"}

\* C14 (as claimed): a delivery never raises, whatever fails on a channel
\* and however incomplete a channel's configuration is, and when it is
\* complete every other sending channel has had its send attempt.
C14_FanOutIsolation ==
    /\ dpc # "raised"
    /\ dpc = "done" => \A c \in SendingChannels : SendsOn(c) # << >>

----------------------------------------------------------------------------
(* Further claims about the intake *)

\* C15 (as claimed): normalizing the request being served gives the same
\* event whenever it is done, on every push path: two normalizations of the
\* same body, headers and secret, at any two times, are equal.
C15_NormalizationPure ==
    (pc = "received" /\ Outcome(request, CONFIG) = "Event")
        => \A t1, t2 \in Times :
              Normalize(request, CONFIG, t1) = Normalize(request, CONFIG, t2)

----------------------------------------------------------------------------
(* Further claims about the poller *)

\* The loop of start_monitoring is between two cycles.
Idle == mpc \in {"sleep", "backoff"}

\* check_all_feeds has just been entered.
CycleStarted == mpc = "check" /\ feed_idx = 1

\* C16: no failure ends the polling loop: after a failed fetch, a failed
\* delivery, an exception out of the delivery or a failed save the loop
\* becomes idle, and an idle loop starts another cycle.
C16_LoopSurvivesFailures ==
    /\ (fault \in {"fetch", "delivery", "raised", "persist"}) ~> Idle
    /\ Idle ~> CycleStarted

\* A cycle has started after an exception left the delivery of the cycle
\* before it.
C16_Witness ==
    /\ CycleStarted
    /\ fault = "raised"
    /\ failed # {}

\* A feed of this cycle could not be fetched or parsed.
FetchFailed == mpc = "check" /\ fault = "fetch"

\* C17: an error on one feed keeps no other feed of the cycle from being
\* checked: in a cycle with a failed feed each step of the loop checks the
\* next feed, adds an article for every identity of it that was not seen to
\* the new articles of the cycle and keeps those found before; after the last feed the new
\* articles go to send_notifications.
C17_FeedErrorIsolated ==
    [][/\ (mpc = "check" /\ feed_idx <= Len(Feeds) /\ (FetchFailed \/ FetchFailed'))
          => /\ mpc' = "check"
             /\ feed_idx' = feed_idx + 1
             /\ last_check'.feed = feed_idx
             /\ \A j \in DOMAIN all_new_articles :
                   /\ j \in DOMAIN all_new_articles'
                   /\ all_new_articles'[j] = all_new_articles[j]
             /\ \A i \in DOMAIN last_check'.articles :
                   get_article_id(last_check'.articles[i]) \notin seen_articles
                      => \E j \in DOMAIN all_new_articles' :
                            /\ j > Len(all_new_articles)
                            /\ get_article_id(all_new_articles'[j]) =
                                  get_article_id(last_check'.articles[i])
       /\ (FetchFailed /\ feed_idx > Len(Feeds) /\ all_new_articles # << >>)
          => mpc' = "send" /\ all_new_articles' = all_new_articles
      ]_vars

\* After the first feed failed the second one was checked and its new
\* articles were taken.
C17_Witness ==
    /\ FetchFailed
    /\ last_check.feed = 2
    /\ ~last_check.error
    /\ last_check.new_articles # << >>
    /\ all_new_articles = last_check.new_articles

\* C18: once loaded, the set of seen identities in memory never shrinks:
\* no step of the poller, of the webhook intake and its delivery tasks, of a
\* failed save or of the shutdown removes an identity from it.
C18_SeenNeverShrinks == [][seen_articles \subseteq seen_articles']_vars

\* The service was shut down with identities in memory that no save has
\* written, after a failed delivery and with a webhook task still pending.
C18_Witness ==
    /\ mpc = "stopped"
    /\ seen_articles # {}
    /\ disk = << >>
    /\ fault = "persist"
    /\ failed # {}
    /\ tasks # << >>

----------------------------------------------------------------------------
(* Further claims about the dispatcher *)

\* The endpoints a send_mode asks for: the private chat, the group chat, or
\* both.
RequestedEndpoints(mode) ==
    CASE mode = "private" -> {"/send_private_msg"}
      [] mode = "group" -> {"/send_group_msg"}
      [] mode = "all" -> {"/send_private_msg", "/send_group_msg"}
      [] OTHER -> {}

\* The key of the Napcat section that configures an endpoint.
IdKeyOf(endpoint) == IF endpoint = "/send_private_msg" THEN "user_id" ELSE "group_id"

\* The endpoints Napcat was called on.
NapcatCalls == {SendsOn("napcat")[i].target : i \in DOMAIN SendsOn("napcat")}

\* C19: the send_mode fixes the targets of a Napcat delivery: a send goes to
\* exactly the requested targets that are configured, and for a requested
\* target that is not configured nothing is sent, the condition is logged and
\* the call returns.
C19_SendModeTargets ==
    (dpc = "done" /\ NapcatEntry(channels) = "send"
       /\ send_mode(channels) \in {"private", "group", "all"})
    => LET requested == RequestedEndpoints(send_mode(channels))
           configured == {e \in requested :
                            Truthy(Get(channels.napcat, IdKeyOf(e), NoneStr))}
       IN  /\ NapcatCalls = configured
           /\ Len(SendsOn("napcat")) = Cardinality(configured)
           /\ \A e \in requested \ configured :
                 ("napcat " \o IdKeyOf(e) \o " missing") \in warnings

----------------------------------------------------------------------------
(* Further claims about the intake and its delivery tasks *)

\* A handler returns the response of an accepted request.
Acknowledges == pc = "received" /\ pc' = "responded" /\ response'.status = 200

----------------------------------------------------------------------------
(* Claims about the event kinds of the Git platforms *)

\* The Git platforms.
GitPlatforms == {"github", "gitlab", "gitea", "gogs"}

\* The discriminator of a Git request: the value of its platform's event
\* header.
Discriminator(req) ==
    Get(RequestHeaders(req), "x-" \o PlatformOf(req) \o "-event", NoneStr)

\* The event kinds a platform's parser has a branch of its own for.
DedicatedEvents(platform) ==
    CASE platform = "github" -> {"push", "create"} \cup OtherDedicatedGithubEvents
      [] platform = "gitlab" -> {"Push Hook"}
      [] OTHER -> {"push"}

\* C21 (as claimed): on every Git platform a verified payload whose event
\* kind has no dedicated mapping is normalized by the generic extractor: the
\* result is an event whose event kind is the discriminator, never None, and
\* the request is accepted.
C21_UnmappedKindFallsBack ==
    (/\ pc = "responded"
     /\ PlatformOf(request) \in GitPlatforms
     /\ ~IsParseError(request)
     /\ VerificationPasses(request, CONFIG)
     /\ Discriminator(request) \notin DedicatedEvents(PlatformOf(request)))
        => \A now \in Times :
              LET event == Normalize(request, CONFIG, now)
              IN  /\ event # None
                  /\ Get(event, "event_type", NoneStr) = Discriminator(request)
                  /\ response.status = 200

----------------------------------------------------------------------------
(* Claims about the event loop *)

\* C22 (as claimed): while a task is inside a transport call or the fetch of
\* a feed, every other task that has a step to take can take it: a call that
\* does not return stalls the task that made it and no other.
C22_CallsDoNotBlock ==
    \A t \in incall :
        /\ t # "intake" => (ENABLED IntakeProgram => ENABLED IntakeStep)
        /\ t # "delivery" => (ENABLED DeliveryProgram => ENABLED DeliveryStep)
        /\ t # "poller" => (ENABLED PollerProgram => ENABLED PollerStep)

----------------------------------------------------------------------------
(* Claims about the deliveries and the saves of a poll cycle *)

\* send_notifications is over, by its return or by an exception.
DeliveriesOver == mpc \in {"save", "sleep", "backoff"} /\ all_new_articles # << >>

\* C23 (as claimed): every new article of a cycle gets its dispatch: when
\* send_notifications is over, each article of the cycle has been through
\* its delay and its sends, whatever failed for the articles before it.
C23_EveryItemDispatched ==
    DeliveriesOver => send_idx = Len(all_new_articles) + 1

\* C24 (as claimed): every cycle attempts to save the store before the next
\* one begins: a cycle begins at the start of the loop or out of the sleep
\* that follows save_seen_articles.
C24_SaveBeforeNextCycle ==
    [][(mpc # "check" /\ mpc' = "check") => mpc \in {"start", "sleep"}]_vars

\* The process is killed and started again.
Restarts == mpc # "start" /\ mpc' = "start"

\* The identities that the cycle in progress, or the last one if the loop is
\* between two cycles, has added to the store.
CycleIdentities == SeqToSet(IdsOf(all_new_articles))

\* C25 (as claimed): the store loaded at a restart holds every identity that
\* a cycle earlier than the one in progress at the crash had added.
C25_RestartKeepsEarlierCycles ==
    [][Restarts => (seen_articles \ CycleIdentities) \subseteq seen_articles']_vars

\* C26 (as claimed): the shutdown cancels the polling loop and saves the
\* store once more: after the shutdown event the store changes no more, in
\* memory or on file, and unless a save failed the file holds every identity
\* of the memory when the process has ended.
C26_ShutdownSavesAll ==
    /\ [][pc = "closed" => UNCHANGED <<seen_articles, disk>>]_vars
    /\ []((mpc = "stopped" /\ fault # "persist")
              => seen_articles \subseteq SeqToSet(disk))

----------------------------------------------------------------------------
(* Claims about the store and the webhook intake *)

\* A step of the webhook intake or of one of its delivery tasks.
IntakeActs == intakeVars' # intakeVars

\* The identity the poller would give the article of an RSS push.
PushedIdentity(req) == get_article_id(ParsedBody(req).value["article"])

\* C27: only the polling task changes the store: no step of a webhook
\* handler, on any route, and of a webhook delivery task changes the store
\* in memory or on file, and what a handler answers depends on the request
\* and the configuration alone, never on the store.
C27_StoreOnlyChangedByPoller ==
    [][IntakeActs
         => /\ UNCHANGED <<seen_articles, disk>>
            /\ pc' = "responded"
                 => \E now \in Times :
                       response' = Handle(request, CONFIG, now).response]_vars

\* An RSS push has been accepted while the store held identities, in memory
\* and on file, and the identity of the pushed article is not among them.
C27_Witness ==
    /\ pc = "responded"
    /\ request.route = "/webhook/rss"
    /\ response.status = 200
    /\ seen_articles # {}
    /\ disk # << >>
    /\ PushedIdentity(request) \notin seen_articles

----------------------------------------------------------------------------
(* git_payload_parser.py: format_notification *)

\* A line of a formatted message: the field it shows and the value shown.
Line(parsed_payload, key) == <<key, parsed_payload[key]>>

\* The event kinds format_notification has a branch for.
TemplateKinds == {"push", "create"} \cup OtherDedicatedGithubEvents

\* The fields the generic format shows when they are set, in its order.
GenericFields ==
    <<"action", "author_name", "pr_number", "issue_number", "comment_body",
      "release_tag", "head_branch", "head_sha", "status", "conclusion",
      "environment", "milestone_title", "label_name", "member_name",
      "fork_name", "repository_url", "pr_url", "issue_url", "comment_url",
      "release_url", "milestone_url", "label_url", "member_url", "fork_url",
      "timestamp">>

\* The lines of the generic format for the fields from position i on.
RECURSIVE GenericLines(_, _)
GenericLines(parsed_payload, i) ==
    IF i > Len(GenericFields) THEN << >>
    ELSE (IF Truthy(Get(parsed_payload, GenericFields[i], ""))
          THEN <<Line(parsed_payload, GenericFields[i])>> ELSE << >>)
         \o GenericLines(parsed_payload, i + 1)

\* GitPayloadParser.format_notification: the template taken for an event and
\* the lines of the message.  The template is chosen by
\* parsed_payload.get('event_type', 'unknown') alone; of the templates of the
\* other kinds only the lines common to all of them are kept.
format_notification(parsed_payload) ==
    LET event_type == Get(parsed_payload, "event_type", "unknown")
    IN  IF event_type = "push"
        THEN [template |-> "push",
              lines |-> <<Line(parsed_payload, "platform"),
                          Line(parsed_payload, "repository_name"),
                          Line(parsed_payload, "branch"),
                          Line(parsed_payload, "commit_message"),
                          Line(parsed_payload, "author_name"),
                          Line(parsed_payload, "commit_url"),
                          Line(parsed_payload, "timestamp")>>]
        ELSE IF event_type \in TemplateKinds
        THEN [template |-> event_type,
              lines |-> <<Line(parsed_payload, "platform"),
                          Line(parsed_payload, "repository_name")>>]
        ELSE [template |-> "generic",
              lines |-> <<Line(parsed_payload, "platform"),
                          Line(parsed_payload, "repository_name"),
                          <<"event_type", event_type>>>>
                        \o GenericLines(parsed_payload, 1)]

\* The fields a message shows.
ShownFields(formatted) == {formatted.lines[i][1] : i \in DOMAIN formatted.lines}

\* The discriminator a platform gives its push events.
PushKind(platform) == IF platform = "gitlab" THEN "Push Hook" ELSE "push"

\* The event of the delivery task handle_git_webhook creates for the request.
AcceptedEvent == handle_git_webhook(request, CONFIG).parsed_payload

\* A push event of a Git platform has been accepted.
PushAccepted ==
    /\ pc = "responded"
    /\ request.route = "/webhook/git"
    /\ Outcome(request, CONFIG) = "Event"
    /\ Discriminator(request) = PushKind(PlatformOf(request))

\* C28 (as claimed): the push event of every Git platform normalizer is
\* formatted with the push template, which shows branch, commit message,
\* author and commit link, and the generic format is taken only for events
\* whose kind has no template of its own.
C28_PushUsesPushTemplate ==
    /\ PushAccepted
         => /\ format_notification(AcceptedEvent).template = "push"
            /\ {"branch", "commit_message", "author_name", "commit_url"}
                 \subseteq ShownFields(format_notification(AcceptedEvent))
    /\ (pc = "responded" /\ request.route = "/webhook/git"
        /\ Outcome(request, CONFIG) = "Event"
        /\ format_notification(AcceptedEvent).template = "generic")
         => Discriminator(request) \notin
              {"Push Hook"} \cup TemplateKinds

----------------------------------------------------------------------------
(* Claims about the identity of an article *)

\* The text an identity is the digest of, by the order of precedence: the
\* guid, without one the link, without both title and time of publication.
IdentityText(article) ==
    CASE Truthy(article.guid) -> article.guid
      [] ~Truthy(article.guid) /\ Truthy(article.link) -> article.link
      [] OTHER -> article.title \o article.published

\* The positions of a fetched list whose identity is not in the store when
\* the loop of check_feed comes to them.
AbsentPositions(check) ==
    {i \in DOMAIN check.articles :
        /\ IdsOf(check.articles)[i] \notin check.before
        /\ \A j \in 1..(i - 1) :
              IdsOf(check.articles)[j] # IdsOf(check.articles)[i]}

\* C29: the identity of an item is the digest of its guid, without a guid of
\* its link, without both of title and time of publication; two items of one
\* non-empty guid have one identity whatever their link, title and time; and
\* check_feed returns an item as new exactly when its identity is not in the
\* store when the item is looked at.
C29_IdentityByPrecedence ==
    last_check.feed # 0 =>
       /\ \A i \in DOMAIN last_check.articles :
             IdsOf(last_check.articles)[i]
                = md5(IdentityText(last_check.articles[i]))
       /\ \A i, j \in DOMAIN last_check.articles :
             (/\ Truthy(last_check.articles[i].guid)
              /\ last_check.articles[i].guid = last_check.articles[j].guid)
                => IdsOf(last_check.articles)[i] = IdsOf(last_check.articles)[j]
       /\ Len(last_check.new_articles) = Cardinality(AbsentPositions(last_check))
       /\ SeqToSet(last_check.new_articles)
             = {last_check.articles[i] : i \in AbsentPositions(last_check)}
       /\ seen_articles \cap SeqToSet(IdsOf(last_check.articles))
             = SeqToSet(IdsOf(last_check.articles))

\* A fetch held two items of one guid with different links and titles, of
\* which one was returned as new, after a fetch of an item without guid.
C29_Witness ==
    /\ last_check.feed # 0
    /\ \E i, j \in DOMAIN last_check.articles :
          /\ i < j
          /\ Truthy(last_check.articles[i].guid)
          /\ last_check.articles[i].guid = last_check.articles[j].guid
          /\ last_check.articles[i].link # last_check.articles[j].link
          /\ last_check.articles[i].title # last_check.articles[j].title
          /\ i \in AbsentPositions(last_check)
    /\ Len(last_check.new_articles) = 1
    /\ md5("l1") \in last_check.before

----------------------------------------------------------------------------
(* Claims about the cycles of the polling loop *)

\* The loop is inside check_all_feeds: checking feeds, inside
\* send_notifications, or about to save.
InCycle == mpc \in {"check", "send", "save"}

\* The work of the cycle is over: every feed was checked and every new
\* article has had its dispatch.
CycleComplete ==
    /\ feed_idx > Len(Feeds)
    /\ all_new_articles # << >> => send_idx = Len(all_new_articles) + 1

\* C30: the polling loop runs one cycle at a time.  The sleep between two
\* cycles starts only out of save_seen_articles, with every feed checked and
\* every new article dispatched; and a cycle begins only when the loop is in
\* none, so never while send_notifications of the cycle before is running or
\* its save is due.
C30_OneCycleAtATime ==
    /\ [](mpc = "sleep" => CycleComplete)
    /\ [][(mpc # "sleep" /\ mpc' = "sleep") => (mpc = "save" /\ CycleComplete)]_vars
    /\ [][(mpc' = "check" /\ feed_idx' = 1 /\ (mpc # "check" \/ feed_idx # 1))
            => ~InCycle]_vars

\* The loop sleeps after a cycle that found two new articles and dispatched
\* both, one of them without success.
C30_Witness ==
    /\ mpc = "sleep"
    /\ Len(all_new_articles) = 2
    /\ send_idx = 3
    /\ failed # {}


============================================================================
